---- MODULE Spec2Model ----
(***************************************************************************)
(* A model of the numerical core of tarifa: the backtest engine            *)
(* (tarifa-eval/src/backtest.rs), the signal combiners (tarifa-combine)    *)
(* and the statistics kernel (tarifa-traits/src/stats.rs,                  *)
(* tarifa-eval/src/ic.rs).                                                 *)
(*                                                                         *)
(* Numbers.  An f64 is modelled as an extended rational <<k, n, d>>:       *)
(* k = "fin" with the reduced fraction n/d (d > 0), or one of "nan",       *)
(* "pinf", "ninf" (with n = 0, d = 1).  Arithmetic is exact: rounding of   *)
(* f64 is not modelled, the IEEE rules for NaN and the infinities are.     *)
(* A value that is a quotient by a square root (a z-score, a correlation)  *)
(* is kept symbolically, as its numerator and the square of its            *)
(* denominator.                                                            *)
(***************************************************************************)
EXTENDS Integers, Sequences, FiniteSets, TLC

\* ------------------------------------------------------------------ bounds
MaxAssets == 2
MaxPeriods == 3
MaxUpdates == 3
MaxLookback == 2
MaxVec == 2
MaxLen == 3

\* ------------------------------------------------------- extended rationals
RECURSIVE Gcd(_, _)
Gcd(a, b) == IF b = 0 THEN a ELSE Gcd(b, a % b)

AbsInt(a) == IF a < 0 THEN -a ELSE a

\* The fraction n/d, d # 0, in reduced form with a positive denominator.
\* (A LET definition without parameters is evaluated anew at each use when
\* TLC evaluates an action, an operator's argument once: values used more than
\* once are passed as arguments throughout.)
F(n, d) ==
  LET reduced(g, s) == <<"fin", (s * n) \div g, (s * d) \div g>>
  IN  reduced(Gcd(AbsInt(n), AbsInt(d)), IF d < 0 THEN -1 ELSE 1)

NaN == <<"nan", 0, 1>>
PInf == <<"pinf", 0, 1>>
NInf == <<"ninf", 0, 1>>
Zero == <<"fin", 0, 1>>
One == <<"fin", 1, 1>>

IsFinite(x) == x[1] = "fin"
IsNan(x) == x[1] = "nan"
IsInf(x) == x[1] \in {"pinf", "ninf"}

\* -1, 0 or 1; of a NaN, 0.
Sign(x) ==
  CASE x[1] = "pinf" -> 1
    [] x[1] = "ninf" -> -1
    [] x[1] = "nan" -> 0
    [] OTHER -> IF x[2] > 0 THEN 1 ELSE IF x[2] < 0 THEN -1 ELSE 0

InfOfSign(s) == IF s > 0 THEN PInf ELSE NInf

XNeg(x) ==
  CASE x[1] = "pinf" -> NInf
    [] x[1] = "ninf" -> PInf
    [] x[1] = "nan" -> NaN
    [] OTHER -> <<"fin", -x[2], x[3]>>

XAbs(x) ==
  CASE x[1] \in {"pinf", "ninf"} -> PInf
    [] x[1] = "nan" -> NaN
    [] OTHER -> <<"fin", AbsInt(x[2]), x[3]>>

XAdd(x, y) ==
  CASE IsNan(x) \/ IsNan(y) -> NaN
    [] IsInf(x) /\ IsInf(y) -> IF x = y THEN x ELSE NaN
    [] IsInf(x) -> x
    [] IsInf(y) -> y
    [] OTHER -> F(x[2] * y[3] + y[2] * x[3], x[3] * y[3])

XSub(x, y) == XAdd(x, XNeg(y))

XMul(x, y) ==
  LET signed(s) == IF s = 0 THEN NaN ELSE InfOfSign(s)
  IN  CASE IsNan(x) \/ IsNan(y) -> NaN
        [] IsInf(x) \/ IsInf(y) -> signed(Sign(x) * Sign(y))
        [] OTHER -> F(x[2] * y[2], x[3] * y[3])

\* IEEE division; the sign of a zero is not modelled (x/0 takes the sign of x).
XDiv(x, y) ==
  CASE IsNan(x) \/ IsNan(y) -> NaN
    [] IsInf(x) /\ IsInf(y) -> NaN
    [] IsInf(x) -> IF Sign(y) < 0 THEN XNeg(x) ELSE x
    [] IsInf(y) -> Zero
    [] y[2] = 0 -> IF x[2] = 0 THEN NaN ELSE InfOfSign(Sign(x))
    [] OTHER -> F(x[2] * y[3], x[3] * y[2])

\* x < y, false when either is a NaN.
XLt(x, y) ==
  CASE IsNan(x) \/ IsNan(y) -> FALSE
    [] x[1] = "pinf" -> FALSE
    [] y[1] = "ninf" -> FALSE
    [] x[1] = "ninf" -> TRUE
    [] y[1] = "pinf" -> TRUE
    [] OTHER -> x[2] * y[3] < y[2] * x[3]

XLe(x, y) == XLt(x, y) \/ (~IsNan(x) /\ x = y)

\* The sum of s[k..Len(s)], and of s.
RECURSIVE XSumFrom(_, _)
XSumFrom(s, k) == IF k > Len(s) THEN Zero ELSE XAdd(s[k], XSumFrom(s, k + 1))

XSum(s) == XSumFrom(s, 1)

MinInt(a, b) == IF a < b THEN a ELSE b

MaxInt(a, b) == IF a > b THEN a ELSE b

\* A vector built entry by entry, as a tuple: the concatenation has the
\* entries evaluated once, at construction, and not at every use.
Vec(f) == f \o <<>>

\* All sequences over S of a length in lo..hi.
SeqsOf(S, lo, hi) == UNION {[1..k -> S] : k \in lo..hi}

\* Option<usize>: <<>> is None, <<v>> is Some(v).
UnwrapOr(opt, dflt) == IF opt = <<>> THEN dflt ELSE opt[1]

\* ------------------------------------------------------ the backtest engine

\* The (index, score) pairs with a finite score, as the set of their indices.
FiniteIdx(scores) == {k \in 1..Len(scores) : IsFinite(scores[k])}

\* Mutant: equal scores in reversed input order.
SortedDesc_ties_reversed(scores) ==
  LET before(fi, k) == {j \in fi : XLt(scores[k], scores[j])
                                     \/ (scores[j] = scores[k] /\ j > k)}
      sorted(fi) == Vec([p \in 1..Cardinality(fi) |->
                      CHOOSE k \in fi : Cardinality(before(fi, k)) = p - 1])
  IN  sorted(FiniteIdx(scores))

\* indexed_scores after the stable sort by score descending: the indices of
\* the finite scores, equal scores in input order.
SortedDesc(scores) ==
  LET before(fi, k) == {j \in fi : XLt(scores[k], scores[j])
                                     \/ (scores[j] = scores[k] /\ j < k)}
      sorted(fi) == Vec([p \in 1..Cardinality(fi) |->
                      CHOOSE k \in fi : Cardinality(before(fi, k)) = p - 1])
  IN  sorted(FiniteIdx(scores))

\* Mutant: the short weight is -1 / (n_short + 1).
LongShortPositions_short_diluted(cfg, scores) ==
  LET n_assets == Len(scores)
      assign(longs, long_weight, shorts, short_weight) ==
        Vec([k \in 1..n_assets |->
           IF k \in shorts THEN short_weight
           ELSE IF k \in longs THEN long_weight ELSE Zero])
      sleeves(sorted, n_long, n_short) ==
        assign({sorted[p] : p \in 1..MinInt(n_long, Len(sorted))},
               IF n_long > 0 THEN F(1, n_long) ELSE Zero,
               {sorted[p] : p \in (MaxInt(Len(sorted) - n_short, 0) + 1)..Len(sorted)},
               IF n_short > 0 THEN F(-1, n_short + 1) ELSE Zero)
  IN  sleeves(SortedDesc(scores),
              UnwrapOr(cfg.n_long, n_assets \div 2),
              UnwrapOr(cfg.n_short, n_assets \div 2))

\* Mutant: the long assignment is the later one.
LongShortPositions_long_last(cfg, scores) ==
  LET n_assets == Len(scores)
      assign(longs, long_weight, shorts, short_weight) ==
        Vec([k \in 1..n_assets |->
           IF k \in longs THEN long_weight
           ELSE IF k \in shorts THEN short_weight ELSE Zero])
      sleeves(sorted, n_long, n_short) ==
        assign({sorted[p] : p \in 1..MinInt(n_long, Len(sorted))},
               IF n_long > 0 THEN F(1, n_long) ELSE Zero,
               {sorted[p] : p \in (MaxInt(Len(sorted) - n_short, 0) + 1)..Len(sorted)},
               IF n_short > 0 THEN F(-1, n_short) ELSE Zero)
  IN  sleeves(SortedDesc(scores),
              UnwrapOr(cfg.n_long, n_assets \div 2),
              UnwrapOr(cfg.n_short, n_assets \div 2))

\* The long/short branch: the top n_long of the ranking get long_weight, then
\* the bottom n_short get short_weight (the later assignment stands).
LongShortPositions(cfg, scores) ==
  LET n_assets == Len(scores)
      assign(longs, long_weight, shorts, short_weight) ==
        Vec([k \in 1..n_assets |->
           IF k \in shorts THEN short_weight
           ELSE IF k \in longs THEN long_weight ELSE Zero])
      sleeves(sorted, n_long, n_short) ==
        assign({sorted[p] : p \in 1..MinInt(n_long, Len(sorted))},
               IF n_long > 0 THEN F(1, n_long) ELSE Zero,
               {sorted[p] : p \in (MaxInt(Len(sorted) - n_short, 0) + 1)..Len(sorted)},
               IF n_short > 0 THEN F(-1, n_short) ELSE Zero)
  IN  sleeves(SortedDesc(scores),
              UnwrapOr(cfg.n_long, n_assets \div 2),
              UnwrapOr(cfg.n_short, n_assets \div 2))

\* Mutant: the weight is one over the number of assets selected.
LongOnlyPositions_renormalised(cfg, scores) ==
  LET n_assets == Len(scores)
      assign(longs, weight) ==
        Vec([k \in 1..n_assets |-> IF k \in longs THEN weight ELSE Zero])
      sleeve(sorted, n_long) ==
        assign({sorted[p] : p \in 1..MinInt(n_long, Len(sorted))},
               IF n_long > 0 THEN F(1, MinInt(n_long, Len(sorted))) ELSE Zero)
  IN  sleeve(SortedDesc(scores), UnwrapOr(cfg.n_long, n_assets))

\* The long-only branch: the top n_long of the ranking get 1 / n_long each.
LongOnlyPositions(cfg, scores) ==
  LET n_assets == Len(scores)
      assign(longs, weight) ==
        Vec([k \in 1..n_assets |-> IF k \in longs THEN weight ELSE Zero])
      sleeve(sorted, n_long) ==
        assign({sorted[p] : p \in 1..MinInt(n_long, Len(sorted))},
               IF n_long > 0 THEN F(1, n_long) ELSE Zero)
  IN  sleeve(SortedDesc(scores), UnwrapOr(cfg.n_long, n_assets))

construct_portfolio(cfg, scores) ==
  IF FiniteIdx(scores) = {} THEN Vec([k \in 1..Len(scores) |-> Zero])
  ELSE IF cfg.long_short THEN LongShortPositions(cfg, scores)
  ELSE LongOnlyPositions(cfg, scores)

\* Mutant: the sum of the absolute changes, not halved.
calculate_turnover_whole(old_positions, new_positions) ==
  LET n == MinInt(Len(old_positions), Len(new_positions))
  IN  XSum([k \in 1..n |-> XAbs(XSub(new_positions[k], old_positions[k]))])

calculate_turnover(old_positions, new_positions) ==
  LET n == MinInt(Len(old_positions), Len(new_positions))
  IN  XDiv(XSum([k \in 1..n |-> XAbs(XSub(new_positions[k], old_positions[k]))]),
           F(2, 1))

calculate_portfolio_return(positions, rets) ==
  LET n == MinInt(Len(positions), Len(rets))
  IN  XSum([k \in 1..n |->
              IF IsFinite(positions[k]) /\ IsFinite(rets[k])
              THEN XMul(positions[k], rets[k]) ELSE Zero])

\* --------------------------------------------- information coefficient (ic.rs)

\* n * M^t < d, for naturals n, d and M > 0, without forming M^t.
RECURSIVE LtScaled(_, _, _, _)
LtScaled(n, d, M, t) ==
  IF t = 0 THEN n < d ELSE LtScaled(n, (d + M - 1) \div M, M, t - 1)

\* |x| < f64::EPSILON = 2^-52 = (2^13)^-4, for a finite x.
BelowF64Epsilon(x) == LtScaled(AbsInt(x[2]), x[3], 8192, 4)

\* The indices of values after the stable ascending sort.
SortedAsc(values) ==
  LET before(k) == {j \in 1..Len(values) : XLt(values[j], values[k])
                                            \/ (values[j] = values[k] /\ j < k)}
  IN  Vec([p \in 1..Len(values) |->
         CHOOSE k \in 1..Len(values) : Cardinality(before(k)) = p - 1])

\* The first position after i (one-based) whose value is no tie of position i's.
RECURSIVE TieEnd(_, _, _, _)
TieEnd(values, indexed, i, j) ==
  IF j <= Len(indexed)
     /\ BelowF64Epsilon(XSub(values[indexed[j]], values[indexed[i]]))
  THEN TieEnd(values, indexed, i, j + 1) ELSE j

\* The loop of compute_ranks from position i (one-based) on; the zero-based
\* average rank of the group i..j-1 is ((i-1) + (j-1) - 1) / 2.
RECURSIVE RankLoop(_, _, _, _)
RankLoop(values, indexed, i, ranks) ==
  LET assign(j, avg_rank, group) ==
        RankLoop(values, indexed, j,
                 Vec([k \in 1..Len(values) |->
                    IF k \in group THEN avg_rank ELSE ranks[k]]))
      ties(j) == assign(j, F(i + j - 3, 2), {indexed[k] : k \in i..(j - 1)})
  IN  IF i > Len(indexed) THEN ranks ELSE ties(TieEnd(values, indexed, i, i))

compute_ranks(values) ==
  RankLoop(values, SortedAsc(values), 1, Vec([k \in 1..Len(values) |-> Zero]))

\* A correlation cov / (sqrt(vx) * sqrt(vy)), kept symbolically; nan = TRUE is
\* f64::NAN.
CorrNaN == [nan |-> TRUE, cov |-> Zero, vx |-> One, vy |-> One]

Corr(cov, vx, vy) == [nan |-> FALSE, cov |-> cov, vx |-> vx, vy |-> vy]

spearman_correlation(ranks_x, ranks_y) ==
  LET n == Len(ranks_x)
      quotient(cov, var_x, var_y) ==
        IF var_x = Zero \/ var_y = Zero THEN CorrNaN
        ELSE Corr(cov, var_x, var_y)
      sums(dx, dy) ==
        quotient(XSum([k \in 1..n |-> XMul(dx[k], dy[k])]),
                 XSum([k \in 1..n |-> XMul(dx[k], dx[k])]),
                 XSum([k \in 1..n |-> XMul(dy[k], dy[k])]))
      deviations(mean_x, mean_y) ==
        sums(Vec([k \in 1..n |-> XSub(ranks_x[k], mean_x)]),
             Vec([k \in 1..n |-> XSub(ranks_y[k], mean_y)]))
  IN  IF n < 2 THEN CorrNaN
      ELSE deviations(XDiv(XSum(ranks_x), F(n, 1)), XDiv(XSum(ranks_y), F(n, 1)))

\* The subsequence of s at the positions of the increasing index set.
RECURSIVE SelectIdx(_, _, _)
SelectIdx(s, keep, k) ==
  IF k > Len(s) THEN <<>>
  ELSE (IF k \in keep THEN <<s[k]>> ELSE <<>>) \o SelectIdx(s, keep, k + 1)

\* Mutant: the returns enter the correlation as they are, not as ranks.
calculate_ic_raw_returns(signal_scores, forward_returns) ==
  IF Len(signal_scores) # Len(forward_returns) THEN CorrNaN
  ELSE IF Len(signal_scores) < 2 THEN CorrNaN
  ELSE LET pairs(keep) ==
             IF Cardinality(keep) < 2 THEN CorrNaN
             ELSE spearman_correlation(
                    compute_ranks(SelectIdx(signal_scores, keep, 1)),
                    SelectIdx(forward_returns, keep, 1))
       IN  pairs({k \in 1..Len(signal_scores) :
                    IsFinite(signal_scores[k]) /\ IsFinite(forward_returns[k])})

calculate_ic(signal_scores, forward_returns) ==
  IF Len(signal_scores) # Len(forward_returns) THEN CorrNaN
  ELSE IF Len(signal_scores) < 2 THEN CorrNaN
  ELSE LET pairs(keep) ==
             IF Cardinality(keep) < 2 THEN CorrNaN
             ELSE spearman_correlation(
                    compute_ranks(SelectIdx(signal_scores, keep, 1)),
                    compute_ranks(SelectIdx(forward_returns, keep, 1)))
       IN  pairs({k \in 1..Len(signal_scores) :
                    IsFinite(signal_scores[k]) /\ IsFinite(forward_returns[k])})

\* Whether a correlation is exactly c, for c = -1 or c = 1.
CorrIs(r, c) ==
  /\ ~r.nan
  /\ Sign(r.cov) = c
  /\ XMul(r.cov, r.cov) = XMul(r.vx, r.vy)

\* ------------------------------------------------- Backtest::run as a machine

VARIABLES
  config,                  \* BacktestConfig: the fields run reads
  lengths,                 \* the lengths of signal_scores, returns and dates
  n_periods,               \* min of the three input lengths
  i,                       \* the loop index of run, zero-based
  pc,                      \* "loop", "done" (run returned) or "panic"
  current_positions,
  turnover_history,
  total_transaction_costs,
  n_trades,
  portfolio_returns,
  cumulative_returns,
  cum_ret,
  run_ic_history,          \* run's local ic_history
  returns_i,               \* returns[i], the input row the loop reads next
  rebalanced_at,           \* history: the indices at which construct_portfolio ran
  result                   \* the BacktestResult, once run returned

btVars == <<config, lengths, n_periods, i, pc, current_positions, turnover_history,
            total_transaction_costs, n_trades, portfolio_returns,
            cumulative_returns, cum_ret, run_ic_history, returns_i,
            rebalanced_at, result>>

\* The combiners of tarifa-combine.
VARIABLES
  combiner,      \* the combiner object: its kind and its configuration
  ic_history,    \* HashMap<String, Vec<f64>>: a function on the keys present
  call,          \* the call of combine: its argument, the histories it read,
                 \* the weights it applied and its result
  supplied,      \* history: the values passed to update_ic, per signal, in order
  update_cap     \* the number of update_ic calls the run makes at most

cbVars == <<combiner, ic_history, call, supplied, update_cap>>

\* The statistics kernel: one pure function applied to one input.
VARIABLES
  st_in,     \* the input vector
  st_op,     \* the function applied: "none", "standardize" or "ic_reversed"
  st_out     \* its result

stVars == <<st_in, st_op, st_out>>

vars == <<btVars, cbVars, stVars>>

\* The inputs of the backtest specification.
ScoreValues == {NaN, Zero, One}

\* A score vector has one entry per asset, or is empty.
ScoreVectors == {<<>>} \cup SeqsOf(ScoreValues, MaxAssets, MaxAssets)

ReturnVectors == {Vec([k \in 1..MaxAssets |-> Zero])}

OptSizes == {<<>>, <<0>>, <<1>>, <<2>>}

Frequencies == {0, 1, 2}

transaction_cost_bps == F(10, 1)

\* The sleeve sizes of the runs: unset, 1 or 2.
RunSizes == {<<>>, <<1>>, <<2>>}

ConfigsOf(frequencies, sizes) ==
  [rebalance_frequency : frequencies, n_long : sizes, n_short : sizes,
   long_short : {TRUE}]
  \cup [rebalance_frequency : frequencies, n_long : sizes, n_short : {<<>>},
        long_short : {FALSE}]

Configs == ConfigsOf(Frequencies, RunSizes)

NoResult == [returned |-> FALSE]

\* BacktestResult::calculate_max_drawdown, from position k of the series on.
RECURSIVE DrawdownLoop(_, _, _, _)
DrawdownLoop(cum, k, peak, max_dd) ==
  LET next(peak1, dd) ==
        DrawdownLoop(cum, k + 1, peak1, IF XLt(max_dd, dd) THEN dd ELSE max_dd)
      draw(peak1) == next(peak1, XDiv(XSub(peak1, cum[k]), XAdd(One, peak1)))
  IN  IF k > Len(cum) THEN max_dd
      ELSE draw(IF XLt(peak, cum[k]) THEN cum[k] ELSE peak)

\* Mutant: the peak starts at 1.
calculate_max_drawdown_from_one(cum) == DrawdownLoop(cum, 1, One, Zero)

calculate_max_drawdown(cum) == DrawdownLoop(cum, 1, Zero, Zero)

\* The mean and the sample variance (N-1 denominator) of a sequence of
\* finite values: <<mean, variance>>; 0/0 is NaN as in f64.
MeanVar(xs) ==
  LET n == Len(xs)
      square(x) == XMul(x, x)
      var(mean) ==
        <<mean, XDiv(XSum([k \in 1..n |-> square(XSub(xs[k], mean))]),
                     F(n - 1, 1))>>
  IN  var(XDiv(XSum(xs), F(n, 1)))

\* BacktestResult::calculate_sharpe without the final square roots:
\* mean / sqrt(var) * sqrt(days), or NaN.
calculate_sharpe(rets, trading_days_per_year) ==
  LET nan == [nan |-> TRUE, mean |-> Zero, var |-> One, days |-> 0]
      ratio(mv) ==
        IF mv[2] = Zero THEN nan
        ELSE [nan |-> FALSE, mean |-> mv[1], var |-> mv[2],
              days |-> trading_days_per_year]
      of(valid) == IF Len(valid) < 2 THEN nan ELSE ratio(MeanVar(valid))
  IN  of(SelectIdx(rets, {k \in 1..Len(rets) : IsFinite(rets[k])}, 1))

\* The input lengths of the runs: the three slices of one length.
Lengths(a, b, c) == [signal_scores |-> a, returns |-> b, dates |-> c]

EqualLengths == {Lengths(n, n, n) : n \in 0..MaxPeriods}

n_periods_of(lens) ==
  MinInt(MinInt(lens.signal_scores, lens.returns), lens.dates)

BtInitOn(configs, lens, RV) ==
  /\ config \in configs
  /\ lengths \in lens
  /\ n_periods = n_periods_of(lengths)
  /\ i = 0
  /\ pc = "loop"
  /\ current_positions = <<>>
  /\ turnover_history = <<>>
  /\ total_transaction_costs = Zero
  /\ n_trades = 0
  /\ portfolio_returns = <<>>
  /\ cumulative_returns = <<>>
  /\ cum_ret = Zero
  /\ run_ic_history = <<>>
  /\ returns_i \in RV
  /\ rebalanced_at = {}
  /\ result = NoResult

BtInit == BtInitOn(Configs, EqualLengths, ReturnVectors)

\* Mutant: the rebalance falls on the periods before the multiples of N.
should_rebalance_late(cfg, period) == (period + 1) % cfg.rebalance_frequency = 0

should_rebalance(cfg, period) == period % cfg.rebalance_frequency = 0

\* Mutant: the cost of a trade is bps / 10000 whatever its turnover.
transaction_cost_flat(turnover, bps) == XDiv(bps, F(10000, 1))

\* tc = turnover * transaction_cost_bps / 10000.0
transaction_cost(turnover, bps) == XDiv(XMul(turnover, bps), F(10000, 1))

\* One iteration of the loop of run: period i reads signal_scores[i], returns[i]
\* and, for the IC, returns[i + 1].
RunStepOn(SV, RV) ==
  /\ pc = "loop"
  /\ i < n_periods
  /\ config.rebalance_frequency # 0
  /\ \E scores \in SV, returns_next \in RV :
     \E rebalance \in {should_rebalance(config, i)} :
     \E new_positions \in {IF rebalance THEN construct_portfolio(config, scores)
                           ELSE <<>>} :
     \E traded \in {rebalance /\ current_positions # <<>>} :
     \E turnover \in {IF traded
                      THEN calculate_turnover(current_positions, new_positions)
                      ELSE Zero} :
     \E tc \in {transaction_cost(turnover, transaction_cost_bps)} :
     \E positions \in {IF rebalance THEN new_positions
                       ELSE current_positions} :
     \E port_ret \in {IF positions = <<>> THEN Zero
                      ELSE calculate_portfolio_return(positions, returns_i)} :
     \E cum \in {XSub(XMul(XAdd(One, cum_ret), XAdd(One, port_ret)), One)} :
       /\ current_positions' = positions
       /\ turnover_history' = IF traded THEN Append(turnover_history, turnover)
                              ELSE turnover_history
       /\ total_transaction_costs' =
            IF traded THEN XAdd(total_transaction_costs, tc)
            ELSE total_transaction_costs
       /\ n_trades' = IF traded THEN n_trades + 1 ELSE n_trades
       /\ rebalanced_at' = IF rebalance THEN rebalanced_at \cup {i}
                           ELSE rebalanced_at
       /\ portfolio_returns' = Append(portfolio_returns, port_ret)
       /\ cum_ret' = cum
       /\ cumulative_returns' = Append(cumulative_returns, cum)
       /\ run_ic_history' =
            IF i + 1 < n_periods
            THEN Append(run_ic_history, calculate_ic(scores, returns_next))
            ELSE run_ic_history
       /\ returns_i' = returns_next
  /\ i' = i + 1
  /\ UNCHANGED <<config, lengths, n_periods, pc, result, cbVars, stVars>>

RunStep == RunStepOn(ScoreVectors, ReturnVectors)

\* i % rebalance_frequency with rebalance_frequency = 0: the remainder by zero
\* panics in the first iteration.
RunPanic ==
  /\ pc = "loop"
  /\ i < n_periods
  /\ config.rebalance_frequency = 0
  /\ pc' = "panic"
  /\ UNCHANGED <<config, lengths, n_periods, i, current_positions, turnover_history,
                 total_transaction_costs, n_trades, portfolio_returns,
                 cumulative_returns, cum_ret, run_ic_history, returns_i,
                 rebalanced_at, result, cbVars, stVars>>

\* After the loop: the metrics and the BacktestResult.
\* annualized_return, a powf, is kept as its base and the number of dates;
\* annualized_volatility as the variance under its square root.
RunReturn ==
  /\ pc = "loop"
  /\ i = n_periods
  /\ pc' = "done"
  /\ result' =
       [returned |-> TRUE,
        returns |-> portfolio_returns,
        cumulative_returns |-> cumulative_returns,
        sharpe_ratio |-> calculate_sharpe(portfolio_returns, 252),
        max_drawdown |-> calculate_max_drawdown(cumulative_returns),
        total_return |-> cum_ret,
        annualized_return |->
          IF lengths.dates > 0 THEN <<XAdd(One, cum_ret), lengths.dates>>
          ELSE <<NaN, 0>>,
        annualized_volatility |->
          IF portfolio_returns # <<>> THEN MeanVar(portfolio_returns)[2] ELSE NaN,
        avg_turnover |->
          IF turnover_history # <<>>
          THEN XDiv(XSum(turnover_history), F(Len(turnover_history), 1))
          ELSE Zero,
        ic_history |-> run_ic_history,
        total_transaction_costs |-> total_transaction_costs,
        n_trades |-> n_trades]
  /\ UNCHANGED <<config, lengths, n_periods, i, current_positions, turnover_history,
                 total_transaction_costs, n_trades, portfolio_returns,
                 cumulative_returns, cum_ret, run_ic_history, returns_i,
                 rebalanced_at, cbVars, stVars>>

BtNext == RunStep \/ RunPanic \/ RunReturn

\* Runs on inputs of three lengths, with returns that are not zero: two score
\* vectors (ascending and descending in the asset index) and two return
\* vectors (every asset gains; the first asset loses).
AllLengths ==
  {Lengths(a, b, c) : a \in 0..MaxPeriods, b \in 0..MaxPeriods,
                      c \in 0..MaxPeriods}

ClippedConfigs ==
  {[rebalance_frequency |-> 0, n_long |-> <<1>>, n_short |-> <<>>,
    long_short |-> FALSE],
   [rebalance_frequency |-> 1, n_long |-> <<1>>, n_short |-> <<>>,
    long_short |-> FALSE],
   [rebalance_frequency |-> 2, n_long |-> <<1>>, n_short |-> <<1>>,
    long_short |-> TRUE]}

ClippedScores ==
  {Vec([k \in 1..MaxAssets |-> F(k, 1)]),
   Vec([k \in 1..MaxAssets |-> F(MaxAssets - k, 1)])}

ClippedReturns ==
  {Vec([k \in 1..MaxAssets |-> F(1, 10)]),
   Vec([k \in 1..MaxAssets |-> IF k = 1 THEN F(-1, 10) ELSE F(1, 5)])}

ClippedInit == BtInitOn(ClippedConfigs, AllLengths, ClippedReturns)

ClippedStep == RunStepOn(ClippedScores, ClippedReturns)

\* ------------------------------------------- Backtest::run as a function

\* The locals of run before the loop; held is history: the positions each
\* period's portfolio return was computed from.
RunLocals ==
  [current_positions |-> <<>>, turnover_history |-> <<>>,
   total_transaction_costs |-> Zero, n_trades |-> 0,
   portfolio_returns |-> <<>>, cumulative_returns |-> <<>>, cum_ret |-> Zero,
   ic_history |-> <<>>, held |-> <<>>]

\* Mutant: the positions are constructed anew in every period (turnover and
\* costs still at the rebalances only).
run_period_fresh(cfg, s, period, n, in) ==
  LET scores == in.signal_scores[period + 1]
      push(positions, traded, turnover, port_ret, cum) ==
        [current_positions |-> positions,
         turnover_history |-> IF traded THEN Append(s.turnover_history, turnover)
                              ELSE s.turnover_history,
         total_transaction_costs |->
           IF traded
           THEN XAdd(s.total_transaction_costs,
                     transaction_cost(turnover, cfg.transaction_cost_bps))
           ELSE s.total_transaction_costs,
         n_trades |-> IF traded THEN s.n_trades + 1 ELSE s.n_trades,
         portfolio_returns |-> Append(s.portfolio_returns, port_ret),
         cumulative_returns |-> Append(s.cumulative_returns, cum),
         cum_ret |-> cum,
         ic_history |->
           IF period + 1 < n
           THEN Append(s.ic_history, calculate_ic(scores, in.returns[period + 2]))
           ELSE s.ic_history,
         held |-> Append(s.held, positions)]
      compound(positions, traded, turnover, port_ret) ==
        push(positions, traded, turnover, port_ret,
             XSub(XMul(XAdd(One, s.cum_ret), XAdd(One, port_ret)), One))
      hold(positions, traded, turnover) ==
        compound(positions, traded, turnover,
                 IF positions = <<>> THEN Zero
                 ELSE calculate_portfolio_return(positions, in.returns[period + 1]))
      rebalance(new_positions, traded) ==
        hold(new_positions, traded,
             IF traded THEN calculate_turnover(s.current_positions, new_positions)
             ELSE Zero)
  IN  IF should_rebalance(cfg, period)
      THEN rebalance(construct_portfolio(cfg, scores), s.current_positions # <<>>)
      ELSE hold(construct_portfolio(cfg, scores), FALSE, Zero)

\* Mutant: the return of a period is net of the cost of its trade.
run_period_net(cfg, s, period, n, in) ==
  LET scores == in.signal_scores[period + 1]
      push(positions, traded, turnover, port_ret, cum) ==
        [current_positions |-> positions,
         turnover_history |-> IF traded THEN Append(s.turnover_history, turnover)
                              ELSE s.turnover_history,
         total_transaction_costs |->
           IF traded
           THEN XAdd(s.total_transaction_costs,
                     transaction_cost(turnover, cfg.transaction_cost_bps))
           ELSE s.total_transaction_costs,
         n_trades |-> IF traded THEN s.n_trades + 1 ELSE s.n_trades,
         portfolio_returns |-> Append(s.portfolio_returns, port_ret),
         cumulative_returns |-> Append(s.cumulative_returns, cum),
         cum_ret |-> cum,
         ic_history |->
           IF period + 1 < n
           THEN Append(s.ic_history, calculate_ic(scores, in.returns[period + 2]))
           ELSE s.ic_history,
         held |-> Append(s.held, positions)]
      compound(positions, traded, turnover, port_ret) ==
        push(positions, traded, turnover, port_ret,
             XSub(XMul(XAdd(One, s.cum_ret), XAdd(One, port_ret)), One))
      hold(positions, traded, turnover) ==
        compound(positions, traded, turnover,
                 XSub(IF positions = <<>> THEN Zero
                      ELSE calculate_portfolio_return(positions,
                                                      in.returns[period + 1]),
                      IF traded
                      THEN transaction_cost(turnover, cfg.transaction_cost_bps)
                      ELSE Zero))
      rebalance(new_positions, traded) ==
        hold(new_positions, traded,
             IF traded THEN calculate_turnover(s.current_positions, new_positions)
             ELSE Zero)
  IN  IF should_rebalance(cfg, period)
      THEN rebalance(construct_portfolio(cfg, scores), s.current_positions # <<>>)
      ELSE hold(s.current_positions, FALSE, Zero)

\* The body of the loop of run for the zero-based period, on the locals s; n is
\* n_periods and in the arguments of run.
run_period(cfg, s, period, n, in) ==
  LET scores == in.signal_scores[period + 1]
      push(positions, traded, turnover, port_ret, cum) ==
        [current_positions |-> positions,
         turnover_history |-> IF traded THEN Append(s.turnover_history, turnover)
                              ELSE s.turnover_history,
         total_transaction_costs |->
           IF traded
           THEN XAdd(s.total_transaction_costs,
                     transaction_cost(turnover, cfg.transaction_cost_bps))
           ELSE s.total_transaction_costs,
         n_trades |-> IF traded THEN s.n_trades + 1 ELSE s.n_trades,
         portfolio_returns |-> Append(s.portfolio_returns, port_ret),
         cumulative_returns |-> Append(s.cumulative_returns, cum),
         cum_ret |-> cum,
         ic_history |->
           IF period + 1 < n
           THEN Append(s.ic_history, calculate_ic(scores, in.returns[period + 2]))
           ELSE s.ic_history,
         held |-> Append(s.held, positions)]
      compound(positions, traded, turnover, port_ret) ==
        push(positions, traded, turnover, port_ret,
             XSub(XMul(XAdd(One, s.cum_ret), XAdd(One, port_ret)), One))
      hold(positions, traded, turnover) ==
        compound(positions, traded, turnover,
                 IF positions = <<>> THEN Zero
                 ELSE calculate_portfolio_return(positions, in.returns[period + 1]))
      rebalance(new_positions, traded) ==
        hold(new_positions, traded,
             IF traded THEN calculate_turnover(s.current_positions, new_positions)
             ELSE Zero)
  IN  IF should_rebalance(cfg, period)
      THEN rebalance(construct_portfolio(cfg, scores), s.current_positions # <<>>)
      ELSE hold(s.current_positions, FALSE, Zero)

\* The loop from a period on: the locals after it, or the record of a panic
\* when a period is entered with rebalance_frequency = 0.
RECURSIVE run_loop(_, _, _, _, _)
run_loop(cfg, s, period, n, in) ==
  IF period >= n THEN s
  ELSE IF cfg.rebalance_frequency = 0 THEN [panicked |-> TRUE]
  ELSE run_loop(cfg, run_period(cfg, s, period, n, in), period + 1, n, in)

\* run(signal_scores, returns, dates) of a Backtest with the configuration
\* in.config; dates is given by its length. The result has the fields of
\* BacktestResult and, as history, turnover_history and held.
run(in) ==
  LET made(s) ==
        IF "panicked" \in DOMAIN s THEN [returned |-> FALSE, panicked |-> TRUE]
        ELSE [returned |-> TRUE, panicked |-> FALSE,
              returns |-> s.portfolio_returns,
              cumulative_returns |-> s.cumulative_returns,
              sharpe_ratio |-> calculate_sharpe(s.portfolio_returns, 252),
              max_drawdown |-> calculate_max_drawdown(s.cumulative_returns),
              total_return |-> s.cum_ret,
              annualized_return |->
                IF in.dates > 0 THEN <<XAdd(One, s.cum_ret), in.dates>>
                ELSE <<NaN, 0>>,
              annualized_volatility |->
                IF s.portfolio_returns # <<>>
                THEN MeanVar(s.portfolio_returns)[2] ELSE NaN,
              avg_turnover |->
                IF s.turnover_history # <<>>
                THEN XDiv(XSum(s.turnover_history), F(Len(s.turnover_history), 1))
                ELSE Zero,
              ic_history |-> s.ic_history,
              total_transaction_costs |-> s.total_transaction_costs,
              n_trades |-> s.n_trades,
              turnover_history |-> s.turnover_history,
              held |-> s.held]
  IN  made(run_loop(in.config, RunLocals, 0,
                    n_periods_of(Lengths(Len(in.signal_scores), Len(in.returns),
                                         in.dates)),
                    in))

\* The runs compared: configurations with a cost of 0, 10 or 25 bps or NaN, four
\* score vectors (ascending, descending, one with a NaN, the empty one) and
\* two return series (every asset gains 10% each period; the first asset
\* loses 10% and the others gain 20% in every other period).
CostSettings == {Zero, transaction_cost_bps, F(25, 1), NaN}

PairConfigs ==
  [rebalance_frequency : Frequencies, n_long : {<<1>>}, n_short : {<<1>>},
   long_short : BOOLEAN, transaction_cost_bps : {transaction_cost_bps}]

PairScores ==
  ClippedScores
  \cup {Vec([k \in 1..MaxAssets |-> IF k = 1 THEN NaN ELSE One]), <<>>}

PairReturns(n) ==
  {Vec([t \in 1..n |-> Vec([k \in 1..MaxAssets |-> F(1, 10)])]),
   Vec([t \in 1..n |->
          Vec([k \in 1..MaxAssets |->
                 IF t % 2 = 1 THEN F(1, 10)
                 ELSE IF k = 1 THEN F(-1, 10) ELSE F(1, 5)])])}

RunInputs ==
  UNION {[config : PairConfigs, signal_scores : [1..n -> PairScores],
          returns : PairReturns(n), dates : {n}] : n \in 0..MaxPeriods}

\* Two runs that differ in transaction_cost_bps only.
CostPairs ==
  {[a |-> in, b |-> [in EXCEPT !.config.transaction_cost_bps = bps]] :
     in \in RunInputs, bps \in CostSettings \ {transaction_cost_bps}}

\* Two runs that differ in the score vector of one period only.
ScorePairs ==
  UNION {{[a |-> in, b |-> [in EXCEPT !.signal_scores[ts[1]] = ts[2]]] :
            ts \in {ts \in (1..Len(in.signal_scores)) \X PairScores :
                      ts[2] # in.signal_scores[ts[1]]}} :
         in \in RunInputs}

\* ------------------------------------------------------------ the combiners

\* MIN_STD_THRESHOLD and the literal 1e-10 of the combiners, as 1 / (10^5)^2.
EpsRoot == 100000

\* |x| < 1e-10; false of a NaN or an infinity.
AbsBelowEps(x) == IsFinite(x) /\ LtScaled(AbsInt(x[2]), x[3], EpsRoot, 2)

\* x > 1e-10; false of a NaN.
AboveEps(x) ==
  \/ x[1] = "pinf"
  \/ IsFinite(x) /\ x[2] > 0 /\ ~LtScaled(x[2], x[3] + 1, EpsRoot, 2)

\* sqrt(v) < 1e-10 for a variance v >= 0; false of a NaN.
SqrtBelowEps(v) == IsFinite(v) /\ LtScaled(AbsInt(v[2]), v[3], EpsRoot, 4)

\* sqrt(v) > 1e-10 for a variance v >= 0; false of a NaN.
SqrtAboveEps(v) ==
  \/ v[1] = "pinf"
  \/ IsFinite(v) /\ v[2] > 0 /\ ~LtScaled(v[2], v[3] + 1, EpsRoot, 4)

\* impl From<String> / From<&str> for TarifaError: the variant produced.
FromString == "Other"

FromStr == "Other"

\* What a call returns. status is "ok", "err" or "panic"; of an "ok" the output
\* vector is values[k] / sqrt(scale2).
Ok(values, scale2) ==
  [status |-> "ok", kind |-> "", values |-> values, scale2 |-> scale2]

Err(kind) == [status |-> "err", kind |-> kind, values |-> <<>>, scale2 |-> One]

Panic == [status |-> "panic", kind |-> "", values |-> <<>>, scale2 |-> One]

\* Whether the k-th entry of a vector values / sqrt(scale2) is finite.
EntryFinite(values, scale2, k) ==
  IsFinite(values[k]) /\ IsFinite(scale2) /\ scale2 # Zero

\* e^-age in thousandths, to the nearest one, for the ages 0, 1, 2, ...
ExpMilli == <<1000, 368, 135, 50, 18, 7, 2, 1>>

\* exp(-decay_factor * age). decay_factor is "0" (0.0), "ln2" (ln 2, so that
\* the weight of age a is 2^-a) or "1" (1.0, the weight e^-a to three decimals).
ExpNeg(decay_factor, age) ==
  CASE decay_factor = "0" -> One
    [] decay_factor = "ln2" -> F(1, 2 ^ age)
    [] decay_factor = "1" ->
         IF age + 1 <= Len(ExpMilli) THEN F(ExpMilli[age + 1], 1000) ELSE Zero

\* ICWeightedCombiner::update_ic / VolScaledCombiner::update_ic on a map.
HistoryOf(hist, name) == IF name \in DOMAIN hist THEN hist[name] ELSE <<>>

\* Mutant: over capacity, the value just pushed is the one removed.
PushEvict_newest(history, ic, ic_lookback) ==
  IF Len(history) + 1 > ic_lookback THEN history ELSE Append(history, ic)

\* history.push(ic), then history.remove(0) if over ic_lookback.
PushEvict(history, ic, ic_lookback) ==
  IF Len(history) + 1 > ic_lookback THEN Tail(Append(history, ic))
  ELSE Append(history, ic)

\* Mutant: the value is pushed to the history of every signal on record.
update_ic_all(hist, cfg, signal_name, ic) ==
  IF cfg.kind = "vol_scale" /\ ~cfg.ic_weight THEN hist
  ELSE [n \in DOMAIN hist \cup {signal_name} |->
          PushEvict(HistoryOf(hist, n), ic, cfg.ic_lookback)]

update_ic(hist, cfg, signal_name, ic) ==
  IF cfg.kind = "vol_scale" /\ ~cfg.ic_weight THEN hist
  ELSE [n \in DOMAIN hist \cup {signal_name} |->
          IF n = signal_name
          THEN PushEvict(HistoryOf(hist, signal_name), ic, cfg.ic_lookback)
          ELSE hist[n]]

compute_weighted_ic(hist, cfg, signal_name) ==
  LET history == HistoryOf(hist, signal_name)
      n == Len(history)
      average(weighted_sum, total_weight) ==
        IF AboveEps(total_weight) THEN XDiv(weighted_sum, total_weight) ELSE Zero
  IN  IF n = 0 THEN Zero
      ELSE IF cfg.decay_factor = "0" THEN XDiv(XSum(history), F(n, 1))
      ELSE average(
             XSum([k \in 1..n |-> XMul(history[k], ExpNeg(cfg.decay_factor, n - k))]),
             XSum([k \in 1..n |-> ExpNeg(cfg.decay_factor, n - k)]))

\* Mutant: without a usable IC, the first signal gets all the weight.
compute_weights_first_only(hist, cfg, signals) ==
  LET k == Len(signals)
      equal == Vec([j \in 1..k |-> IF j = 1 THEN One ELSE Zero])
      normalised(abs_ics, total) ==
        IF AbsBelowEps(total) THEN equal
        ELSE Vec([j \in 1..k |-> XDiv(abs_ics[j], total)])
      weigh(ics) ==
        IF \A j \in 1..k : AbsBelowEps(ics[j]) THEN equal
        ELSE normalised(Vec([j \in 1..k |-> XAbs(ics[j])]),
                        XSum([j \in 1..k |-> XAbs(ics[j])]))
  IN  IF cfg.kind = "vol_scale" /\ ~cfg.ic_weight THEN equal
      ELSE weigh(Vec([j \in 1..k |-> compute_weighted_ic(hist, cfg, signals[j].name)]))

\* compute_weights; signals is the sequence of [name, scores] records.
compute_weights(hist, cfg, signals) ==
  LET k == Len(signals)
      equal == Vec([j \in 1..k |-> F(1, k)])
      normalised(abs_ics, total) ==
        IF AbsBelowEps(total) THEN equal
        ELSE Vec([j \in 1..k |-> XDiv(abs_ics[j], total)])
      weigh(ics) ==
        IF \A j \in 1..k : AbsBelowEps(ics[j]) THEN equal
        ELSE normalised(Vec([j \in 1..k |-> XAbs(ics[j])]),
                        XSum([j \in 1..k |-> XAbs(ics[j])]))
  IN  IF cfg.kind = "vol_scale" /\ ~cfg.ic_weight THEN equal
      ELSE weigh(Vec([j \in 1..k |-> compute_weighted_ic(hist, cfg, signals[j].name)]))

\* ndarray's std(1.0) squared: the sample variance; of an empty array the call
\* panics (ddof > n), of one element it is 0/0.
Variance(xs) == MeanVar(xs)[2]

\* The combiners' private standardize: <<values, scale2>>.
CombinerStandardize(scores) ==
  LET n == Len(scores)
      zscores(mean, var) ==
        IF SqrtBelowEps(var) THEN <<Vec([k \in 1..n |-> Zero]), One>>
        ELSE IF ~IsFinite(var) THEN <<Vec([k \in 1..n |-> NaN]), One>>
        ELSE <<Vec([k \in 1..n |-> XSub(scores[k], mean)]), var>>
      of(mv) == zscores(mv[1], mv[2])
  IN  of(MeanVar(scores))

\* VolScaledCombiner::scale_to_vol on a vector values / sqrt(scale2).
scale_to_vol(values, scale2, target_vol) ==
  LET n == Len(values)
      scaled(var) ==
        IF SqrtBelowEps(var) THEN <<values, scale2>>
        ELSE IF ~IsFinite(var) THEN <<Vec([k \in 1..n |-> NaN]), One>>
        ELSE <<Vec([k \in 1..n |-> XMul(values[k], target_vol)]), XMul(scale2, var)>>
  IN  scaled(XDiv(Variance(values), scale2))

\* The weighted sum of the signals' score vectors, entry by entry.
WeightedSum(signals, weights, n_assets) ==
  Vec([a \in 1..n_assets |->
     XSum([j \in 1..Len(signals) |-> XMul(signals[j].scores[a], weights[j])])])

\* The final validation of combine.
Validate(out) ==
  IF \E k \in 1..Len(out[1]) : ~EntryFinite(out[1], out[2], k)
  THEN Err(FromStr) ELSE Ok(out[1], out[2])

\* Combiner::combine of the three combiners.
combine(hist, cfg, signals) ==
  LET n_assets == Len(signals[1].scores)
      k == Len(signals)
      mean == Vec([a \in 1..n_assets |->
                 XDiv(XSum([j \in 1..k |-> signals[j].scores[a]]), F(k, 1))])
      scaled(z) == Validate(scale_to_vol(z[1], z[2], cfg.target_vol))
      body ==
        CASE cfg.kind = "equal_weight" ->
               IF ~cfg.normalize THEN Validate(<<mean, One>>)
               ELSE IF n_assets = 0 THEN Panic
               ELSE Validate(CombinerStandardize(mean))
          [] cfg.kind = "ic_weight" ->
               IF n_assets = 0 THEN Panic
               ELSE Validate(CombinerStandardize(
                      WeightedSum(signals, compute_weights(hist, cfg, signals),
                                  n_assets)))
          [] OTHER ->
               IF n_assets = 0 THEN Panic
               ELSE scaled(CombinerStandardize(
                      WeightedSum(signals, compute_weights(hist, cfg, signals),
                                  n_assets)))
  IN  IF signals = <<>> THEN Err(FromStr)
      ELSE IF \E j \in 1..k : Len(signals[j].scores) # n_assets
      THEN Err(FromString)
      ELSE body

Names == {"a", "b"}

ICValues == {NaN, F(1, 10), F(-1, 20)}

Sig(name, scores) == [name |-> name, scores |-> scores]

NoCall ==
  [made |-> FALSE, signals |-> <<>>, history |-> <<>>, weights |-> <<>>,
   result |-> Panic]

\* Whether combine gets as far as compute_weights.
ReachesWeights(cfg, signals) ==
  /\ cfg.kind # "equal_weight"
  /\ signals # <<>>
  /\ \A j \in 1..Len(signals) : Len(signals[j].scores) = Len(signals[1].scores)

TotalSupplied == Len(supplied["a"]) + Len(supplied["b"])

CbInitOn(cfgs, cap) ==
  /\ combiner \in cfgs
  /\ ic_history = <<>>
  /\ call = NoCall
  /\ supplied = [n \in Names |-> <<>>]
  /\ update_cap = cap

\* update_ic(signal_name, ic) of the two combiners that have it.
UpdateIc ==
  /\ combiner.kind \in {"ic_weight", "vol_scale"}
  /\ TotalSupplied < update_cap
  /\ \E signal_name \in Names, ic \in ICValues :
       /\ ic_history' = update_ic(ic_history, combiner, signal_name, ic)
       /\ supplied' = [supplied EXCEPT ![signal_name] = Append(@, ic)]
  /\ UNCHANGED <<combiner, call, update_cap, btVars, stVars>>

\* combine(signals), signals drawn from lists; &self: the object is not changed,
\* and a run makes one call.
CombineOn(lists) ==
  /\ ~call.made
  /\ \E signals \in lists :
       call' = [made |-> TRUE,
                signals |-> signals,
                history |-> ic_history,
                weights |-> IF ReachesWeights(combiner, signals)
                            THEN compute_weights(ic_history, combiner, signals)
                            ELSE <<>>,
                result |-> combine(ic_history, combiner, signals)]
  /\ UNCHANGED <<combiner, ic_history, supplied, update_cap, btVars, stVars>>

\* The configurations and the signal lists of the two combiner specifications:
\* one with long IC histories and few signal lists, one the other way round.
HistoryConfigs ==
  [kind : {"ic_weight"}, normalize : {TRUE}, ic_weight : {TRUE},
   ic_lookback : 0..MaxLookback, decay_factor : {"0", "ln2"}, target_vol : {One}]
  \cup [kind : {"vol_scale"}, normalize : {TRUE}, ic_weight : {TRUE},
        ic_lookback : 0..MaxLookback, decay_factor : {"0"}, target_vol : {F(3, 2)}]
  \cup [kind : {"vol_scale"}, normalize : {TRUE}, ic_weight : {FALSE},
        ic_lookback : {1}, decay_factor : {"0"}, target_vol : {F(3, 2)}]

HistoryLists ==
  {<<Sig("a", <<Zero, One>>)>>,
   <<Sig("a", <<Zero, One>>), Sig("b", <<One, Zero>>)>>,
   <<Sig("b", <<One, One, Zero>>), Sig("a", <<Zero, One, F(2, 1)>>)>>}

CombineConfigs ==
  [kind : {"equal_weight"}, normalize : BOOLEAN, ic_weight : {FALSE},
   ic_lookback : {1}, decay_factor : {"0"}, target_vol : {One}]
  \cup [kind : {"ic_weight"}, normalize : {TRUE}, ic_weight : {TRUE},
        ic_lookback : {1}, decay_factor : {"0", "ln2"}, target_vol : {One}]
  \cup [kind : {"vol_scale"}, normalize : {TRUE}, ic_weight : BOOLEAN,
        ic_lookback : {1}, decay_factor : {"0"}, target_vol : {F(3, 2)}]

SignalVectors == SeqsOf({NaN, Zero, One}, 0, MaxVec)

SignalLists ==
  {<<>>}
  \cup {<<Sig("a", v)>> : v \in SignalVectors}
  \cup {<<Sig("a", v), Sig("b", w)>> : v \in SignalVectors, w \in SignalVectors}

CombineFew == CombineOn(HistoryLists)

CombineAny == CombineOn(SignalLists)

\* ------------------------------------------------- the statistics kernel

\* stats.rs standardize: the output vector is values[k] / sqrt(scale2); mean and
\* var are the StandardizeResult's mean and the square of its std.
StdResult(values, scale2, mean, var, applied) ==
  [values |-> values, scale2 |-> scale2, mean |-> mean, var |-> var,
   applied |-> applied]

\* Mutant: an input without a finite entry gives zeros.
standardize_zero_fill(values) ==
  LET len == Len(values)
      finite_values ==
        SelectIdx(values, {k \in 1..len : IsFinite(values[k])}, 1)
      apply(mean, variance) ==
        IF SqrtAboveEps(variance)
        THEN StdResult(Vec([k \in 1..len |-> XSub(values[k], mean)]), variance,
                       mean, variance, TRUE)
        ELSE StdResult(Vec([k \in 1..len |-> Zero]), One, mean, variance, FALSE)
      stats(fv) ==
        IF fv = <<>>
        THEN StdResult(Vec([k \in 1..len |-> Zero]), One, NaN, NaN, FALSE)
        ELSE apply(XDiv(XSum(fv), F(Len(fv), 1)),
                   IF Len(fv) > 1 THEN Variance(fv) ELSE Zero)
  IN  IF values = <<>> THEN StdResult(<<>>, One, NaN, NaN, FALSE)
      ELSE stats(finite_values)

standardize(values) ==
  LET len == Len(values)
      finite_values ==
        SelectIdx(values, {k \in 1..len : IsFinite(values[k])}, 1)
      apply(mean, variance) ==
        IF SqrtAboveEps(variance)
        THEN StdResult(Vec([k \in 1..len |-> XSub(values[k], mean)]), variance,
                       mean, variance, TRUE)
        ELSE StdResult(Vec([k \in 1..len |-> Zero]), One, mean, variance, FALSE)
      stats(fv) ==
        IF fv = <<>>
        THEN StdResult(Vec([k \in 1..len |-> NaN]), One, NaN, NaN, FALSE)
        ELSE apply(XDiv(XSum(fv), F(Len(fv), 1)),
                   IF Len(fv) > 1 THEN Variance(fv) ELSE Zero)
  IN  IF values = <<>> THEN StdResult(<<>>, One, NaN, NaN, FALSE)
      ELSE stats(finite_values)

Reverse(s) == Vec([k \in 1..Len(s) |-> s[Len(s) + 1 - k]])

StatValues == {NaN, PInf, Zero, One, F(3, 1)}

NoStat == StdResult(<<>>, One, NaN, NaN, FALSE)

StInit ==
  /\ st_in \in SeqsOf(StatValues, 0, MaxLen)
  /\ st_op = "none"
  /\ st_out = NoStat

Standardize ==
  /\ st_op = "none"
  /\ st_op' = "standardize"
  /\ st_out' = standardize(st_in)
  /\ UNCHANGED <<st_in, btVars, cbVars>>

\* construct_portfolio of the configuration on the input as the score vector.
ConstructPortfolio ==
  /\ st_op = "none"
  /\ st_op' = "construct_portfolio"
  /\ st_out' = construct_portfolio(config, st_in)
  /\ UNCHANGED <<st_in, btVars, cbVars>>

\* calculate_ic of the input and the input in reversed order.
IcReversed ==
  /\ st_op = "none"
  /\ st_op' = "ic_reversed"
  /\ st_out' = calculate_ic(st_in, Reverse(st_in))
  /\ UNCHANGED <<st_in, btVars, cbVars>>

\* ------------------------------------------- the signals (tarifa-signals)

\* A score call's result: the symbols of the output rows (as their positions
\* in the panel) and their scores values[k] / sqrt(scale2), or an error.
ScoreOk(symbols, z) ==
  [status |-> "ok", kind |-> "", symbols |-> symbols, values |-> z.values,
   scale2 |-> z.scale2]

ScoreErr(kind) ==
  [status |-> "err", kind |-> kind, symbols |-> <<>>, values |-> <<>>,
   scale2 |-> One]

\* The cross-sectional z-score that ends every score call.
standardized(result_scores) ==
  LET len == Len(result_scores)
      squares(mean) ==
        [k \in 1..len |-> XMul(XSub(result_scores[k], mean),
                               XSub(result_scores[k], mean))]
      zs(mean, variance) ==
        IF SqrtAboveEps(variance)
        THEN [values |-> Vec([k \in 1..len |-> XSub(result_scores[k], mean)]),
              scale2 |-> variance]
        ELSE [values |-> Vec([k \in 1..len |-> Zero]), scale2 |-> One]
      with(mean) ==
        zs(mean, XDiv(XSum(Vec(squares(mean))), F(MaxInt(len - 1, 1), 1)))
  IN  with(XDiv(XSum(result_scores), F(len, 1)))

\* ShortTermMomentum: prices is a symbol's non-null closes up to the date, in
\* date order.
ShortTermRaw(cfg, row) ==
  LET n == Len(row.close)
  IN  IF n < cfg.lookback_days + 1 THEN <<>>
      ELSE <<XSub(XDiv(row.close[n], row.close[n - cfg.lookback_days]), One)>>

\* LongTermMomentum (indices one-based: prices[skip_idx] is close[skip_idx + 1]).
LongTermRaw(cfg, row) ==
  LET n == Len(row.close)
      skip_idx == IF cfg.skip_days > 0 /\ n > cfg.skip_days
                  THEN n - 1 - cfg.skip_days ELSE n - 1
      lookback_idx == n - 1 - cfg.lookback_days
  IN  IF n < cfg.lookback_days + 1 THEN <<>>
      ELSE IF skip_idx <= lookback_idx THEN <<>>
      ELSE <<XSub(XDiv(row.close[skip_idx + 1], row.close[lookback_idx + 1]),
                  One)>>

\* BookToPrice: a row is the symbol's most recent one; a null is <<>>.
BookToPriceRaw(cfg, row) ==
  IF /\ row.book_value # <<>>
     /\ row.market_cap # <<>>
     /\ XLt(Zero, row.market_cap[1])
     /\ IsFinite(row.book_value[1])
  THEN <<XDiv(row.book_value[1], row.market_cap[1])>>
  ELSE <<>>

\* floor and ceil of a finite x, cast to usize (a negative value gives 0).
FloorUsize(x) == MaxInt(0, x[2] \div x[3])

CeilUsize(x) == MaxInt(0, -((-x[2]) \div x[3]))

\* Mutant: a value above the upper bound is set to the lower bound.
winsorize_fold_low(cfg, values) ==
  LET clip(lower_bound, upper_bound) ==
        Vec([k \in 1..Len(values) |->
          IF ~IsFinite(values[k]) THEN values[k]
          ELSE IF XLt(values[k], lower_bound) THEN lower_bound
          ELSE IF XLt(upper_bound, values[k]) THEN lower_bound
          ELSE values[k]])
      bounds(fv, order, n) ==
        clip(fv[order[FloorUsize(XMul(F(n, 1), cfg.winsorize_pct)) + 1]],
             fv[order[MinInt(CeilUsize(XMul(F(n, 1),
                                            XSub(One, cfg.winsorize_pct))),
                             n - 1) + 1]])
      sorted(fv) ==
        IF fv = <<>> THEN values ELSE bounds(fv, SortedAsc(fv), Len(fv))
  IN  IF ~cfg.winsorize \/ values = <<>> THEN values
      ELSE sorted(SelectIdx(values, FiniteIdx(values), 1))

\* BookToPrice::winsorize, for a winsorize_pct below one.
winsorize(cfg, values) ==
  LET clip(lower_bound, upper_bound) ==
        Vec([k \in 1..Len(values) |->
          IF ~IsFinite(values[k]) THEN values[k]
          ELSE IF XLt(values[k], lower_bound) THEN lower_bound
          ELSE IF XLt(upper_bound, values[k]) THEN upper_bound
          ELSE values[k]])
      bounds(fv, order, n) ==
        clip(fv[order[FloorUsize(XMul(F(n, 1), cfg.winsorize_pct)) + 1]],
             fv[order[MinInt(CeilUsize(XMul(F(n, 1),
                                            XSub(One, cfg.winsorize_pct))),
                             n - 1) + 1]])
      sorted(fv) ==
        IF fv = <<>> THEN values ELSE bounds(fv, SortedAsc(fv), Len(fv))
  IN  IF ~cfg.winsorize \/ values = <<>> THEN values
      ELSE sorted(SelectIdx(values, FiniteIdx(values), 1))

\* The loop of a score call and its end. raws[k] is <<>> for a symbol the loop
\* skips and <<v>> for one it pushes with the raw number v; PushedSymbols and
\* PushedScores are result_symbols and result_scores after the loop.
Pushed(raws) == {k \in 1..Len(raws) : raws[k] # <<>>}

PushedSymbols(raws) == SelectIdx(Vec([k \in 1..Len(raws) |-> k]), Pushed(raws), 1)

PushedScores(raws) ==
  LET rs == SelectIdx(raws, Pushed(raws), 1)
  IN  Vec([k \in 1..Len(rs) |-> rs[k][1]])

ScoreOf(symbols, values) ==
  IF symbols = <<>> THEN ScoreErr("InsufficientData")
  ELSE ScoreOk(symbols, standardized(values))

\* Signal::score of the three signals, on a panel that has the required
\* columns and a row up to the date. The value signal winsorizes the ratios
\* before it standardizes them.
ShortTermMomentum_score(cfg, data) ==
  LET raws == Vec([k \in 1..Len(data) |-> ShortTermRaw(cfg, data[k])])
  IN  ScoreOf(PushedSymbols(raws), PushedScores(raws))

LongTermMomentum_score(cfg, data) ==
  LET raws == Vec([k \in 1..Len(data) |-> LongTermRaw(cfg, data[k])])
  IN  ScoreOf(PushedSymbols(raws), PushedScores(raws))

BookToPrice_score(cfg, data) ==
  LET raws == Vec([k \in 1..Len(data) |-> BookToPriceRaw(cfg, data[k])])
  IN  ScoreOf(PushedSymbols(raws), winsorize(cfg, PushedScores(raws)))

score(cfg, data) ==
  CASE cfg.name = "short_term_momentum" -> ShortTermMomentum_score(cfg, data)
    [] cfg.name = "long_term_momentum" -> LongTermMomentum_score(cfg, data)
    [] cfg.name = "book_to_price" -> BookToPrice_score(cfg, data)

\* The inputs of the score calls.
MaxSymbols == 3

PriceSeries ==
  {<<One>>, <<One, F(2, 1), NaN>>, <<Zero, One, One>>}
  \cup {<<past, current>> : past \in {NaN, Zero, One},
                            current \in {NaN, One, F(2, 1)}}

PriceRows == {[close |-> prices] : prices \in PriceSeries}

FundamentalRows ==
  {[book_value |-> bv, market_cap |-> mc] :
     bv \in {<<>>, <<NaN>>, <<One>>, <<F(3, 1)>>},
     mc \in {<<NaN>>, <<Zero>>, <<One>>}}

MomentumConfigs ==
  {[name |-> "short_term_momentum", lookback_days |-> 1],
   [name |-> "long_term_momentum", lookback_days |-> 1, skip_days |-> 0],
   [name |-> "long_term_momentum", lookback_days |-> 2, skip_days |-> 1]}

ValueConfigs ==
  {[name |-> "book_to_price", winsorize |-> w, winsorize_pct |-> F(2, 5)] :
     w \in BOOLEAN}

ScoreCalls ==
  {[signal |-> cfg, data |-> data] :
     cfg \in MomentumConfigs, data \in SeqsOf(PriceRows, MaxSymbols, MaxSymbols)}
  \cup
  {[signal |-> cfg, data |-> data] :
     cfg \in ValueConfigs,
     data \in SeqsOf(FundamentalRows, MaxSymbols, MaxSymbols)}

SgInit ==
  /\ st_in \in ScoreCalls
  /\ st_op = "none"
  /\ st_out = NoStat

Score ==
  /\ st_op = "none"
  /\ st_op' = "score"
  /\ st_out' = score(st_in.signal, st_in.data)
  /\ UNCHANGED <<st_in, btVars, cbVars>>

\* winsorize called on a vector, and again on what the call left (&mut values).
WinsorLen == MaxLen + 2

WinsorizeCalls ==
  {[values |-> values,
    config |-> [name |-> "book_to_price", winsorize |-> w, winsorize_pct |-> pct]] :
     values \in SeqsOf({NaN, Zero, One, F(3, 1)}, 0, WinsorLen),
     w \in BOOLEAN, pct \in {Zero, F(1, 4), F(2, 5)}}

WinsorizeInit ==
  /\ st_in \in WinsorizeCalls
  /\ st_op = "none"
  /\ st_out = NoStat

Winsorize ==
  /\ st_op \in {"none", "winsorized"}
  /\ \E values \in {IF st_op = "none" THEN st_in.values ELSE st_out.values} :
       st_out' = [values |-> winsorize(st_in.config, values), before |-> values]
  /\ st_op' = IF st_op = "none" THEN "winsorized" ELSE "winsorized again"
  /\ UNCHANGED <<st_in, btVars, cbVars>>

\* ------------------------------------- the evaluation metrics (metrics.rs)

calculate_autocorrelation(series, lag) ==
  LET len == Len(series)
      n == len - lag
      ratio(numerator, denominator) ==
        IF denominator = Zero THEN NaN ELSE XDiv(numerator, denominator)
      with(mean) ==
        ratio(XSum([k \in 1..n |-> XMul(XSub(series[k], mean),
                                        XSub(series[k + lag], mean))]),
              XSum([k \in 1..len |-> XMul(XSub(series[k], mean),
                                          XSub(series[k], mean))]))
  IN  IF len <= lag THEN NaN ELSE with(XDiv(XSum(series), F(len, 1)))

\* The loop over the assets from asset_idx on: <<total_autocorr, valid_assets>>.
RECURSIVE AutocorrLoop(_, _, _, _, _)
AutocorrLoop(rank_series, cfg, asset_idx, total_autocorr, valid_assets) ==
  LET column == Vec([t \in 1..Len(rank_series) |-> rank_series[t][asset_idx]])
      next(autocorr) ==
        IF IsFinite(autocorr)
        THEN AutocorrLoop(rank_series, cfg, asset_idx + 1,
                          XAdd(total_autocorr, autocorr), valid_assets + 1)
        ELSE AutocorrLoop(rank_series, cfg, asset_idx + 1, total_autocorr,
                          valid_assets)
      on(asset_ranks) ==
        IF Len(asset_ranks) >= cfg.min_observations
        THEN next(calculate_autocorrelation(asset_ranks, 1))
        ELSE AutocorrLoop(rank_series, cfg, asset_idx + 1, total_autocorr,
                          valid_assets)
  IN  IF asset_idx > Len(rank_series[1]) THEN <<total_autocorr, valid_assets>>
      ELSE on(SelectIdx(column, FiniteIdx(column), 1))

\* SignalTurnover::calculate, on rank vectors of one length.
SignalTurnover_calculate(rank_series, cfg) ==
  LET made(autocorr) ==
        [autocorr |-> autocorr, turnover_rate |-> XSub(One, autocorr),
         n_obs |-> Len(rank_series)]
      average(sums) ==
        made(IF sums[2] > 0 THEN XDiv(sums[1], F(sums[2], 1)) ELSE NaN)
  IN  IF Len(rank_series) < 2
      THEN [autocorr |-> NaN, turnover_rate |-> NaN, n_obs |-> Len(rank_series)]
      ELSE average(AutocorrLoop(rank_series, cfg, 1, Zero, 0))

\* The rank vectors of n assets: ranks 1 and 2, and a vector with a NaN.
RankVectors(n) ==
  [1..n -> {One, F(2, 1)}]
  \cup {Vec([k \in 1..n |-> IF k = 1 THEN NaN ELSE One])}

TurnoverCalls ==
  {[rank_series |-> rs, config |-> [min_observations |-> m]] :
     rs \in UNION {SeqsOf(RankVectors(n), 0, MaxLen) : n \in 1..MaxAssets},
     m \in {2, 3}}

TurnoverInit ==
  /\ st_in \in TurnoverCalls
  /\ st_op = "none"
  /\ st_out = NoStat

Turnover ==
  /\ st_op = "none"
  /\ st_op' = "turnover"
  /\ st_out' = SignalTurnover_calculate(st_in.rank_series, st_in.config)
  /\ UNCHANGED <<st_in, btVars, cbVars>>

\* --------------------------------------------------- the decay curve (decay.rs)

\* DecayCurve::half_life from position at (one-based) on: <<>> is None, <<h>>
\* is Some(h).
RECURSIVE HalfLifeLoop(_, _, _)
HalfLifeLoop(curve, half_ic, at) ==
  LET interpolate(ic1, ic2, h1, h2) ==
        <<XAdd(h1, XMul(XDiv(XSub(ic1, half_ic), XSub(ic1, ic2)),
                        XSub(h2, h1)))>>
      step(ic1, ic2) ==
        IF XLe(half_ic, ic1) /\ XLe(ic2, half_ic)
        THEN interpolate(ic1, ic2, F(curve.horizons[at], 1),
                         F(curve.horizons[at + 1], 1))
        ELSE HalfLifeLoop(curve, half_ic, at + 1)
  IN  IF at > Len(curve.ic_values) - 1 THEN <<>>
      ELSE step(XAbs(curve.ic_values[at]), XAbs(curve.ic_values[at + 1]))

half_life(curve) ==
  IF curve.ic_values = <<>> THEN <<>>
  ELSE HalfLifeLoop(curve, XDiv(XAbs(curve.ic_values[1]), F(2, 1)), 1)

\* The curves DecayAnalysis::analyze builds: an IC for each horizon.
Horizons == {1, 2, 5}

CurveICs == {NaN, Zero, F(1, 10), F(-1, 20)}

DecayCurves ==
  UNION {{[horizons |-> hs, ic_values |-> ics] :
            hs \in [1..k -> Horizons], ics \in [1..k -> CurveICs]} :
         k \in 0..MaxLen}

DecayInit ==
  /\ st_in \in DecayCurves
  /\ st_op = "none"
  /\ st_out = NoStat

HalfLife ==
  /\ st_op = "none"
  /\ st_op' = "half_life"
  /\ st_out' = half_life(st_in)
  /\ UNCHANGED <<st_in, btVars, cbVars>>

\* compute_weighted_ic of the combiner on one signal name, at any point of
\* the combiner's life (the function combine calls for each of its signals).
WeightedIcConfigs ==
  [kind : {"ic_weight"}, normalize : {TRUE}, ic_weight : {TRUE},
   ic_lookback : 1..MaxLookback, decay_factor : {"0", "1"}, target_vol : {One}]

StReady ==
  /\ st_in = <<>>
  /\ st_op = "none"
  /\ st_out = NoStat

WeightedIc ==
  /\ st_op = "none"
  /\ \E signal_name \in Names :
       /\ st_in' = [history |-> HistoryOf(ic_history, signal_name)]
       /\ st_out' = compute_weighted_ic(ic_history, combiner, signal_name)
  /\ st_op' = "compute_weighted_ic"
  /\ UNCHANGED <<btVars, cbVars>>

\* ------------------------------------------ the evaluator (evaluator.rs)

\* evaluator.rs compute_ranks: the finite values in a stable ascending sort,
\* each given its position in it (zero-based); f64::NAN for the others.
Evaluator_compute_ranks(values) ==
  LET finite == FiniteIdx(values)
      before(k) == {j \in finite : XLt(values[j], values[k])
                                     \/ (values[j] = values[k] /\ j < k)}
  IN  Vec([k \in 1..Len(values) |->
         IF k \in finite THEN F(Cardinality(before(k)), 1) ELSE NaN])

\* DefaultEvaluator::compute_rank_series: the ranks of each period's scores.
compute_rank_series(signal_scores) ==
  Vec([t \in 1..Len(signal_scores) |-> Evaluator_compute_ranks(signal_scores[t])])

\* The evaluator's score series: up to two periods of vectors of any length.
EvaluatorPeriods == 2

EvaluatorScores ==
  SeqsOf(SeqsOf(ScoreValues, 0, MaxLen), 0, EvaluatorPeriods)

RankSeriesInit ==
  /\ st_in \in EvaluatorScores
  /\ st_op = "none"
  /\ st_out = NoStat

RankSeries ==
  /\ st_op = "none"
  /\ st_op' = "rank_series"
  /\ st_out' = compute_rank_series(st_in)
  /\ UNCHANGED <<st_in, btVars, cbVars>>

\* The two runs of a pair.
CostPairInit ==
  /\ st_in \in CostPairs
  /\ st_op = "none"
  /\ st_out = NoStat

ScorePairInit ==
  /\ st_in \in ScorePairs
  /\ st_op = "none"
  /\ st_out = NoStat

RunBoth ==
  /\ st_op = "none"
  /\ st_op' = "run"
  /\ st_out' = [a |-> run(st_in.a), b |-> run(st_in.b)]
  /\ UNCHANGED <<st_in, btVars, cbVars>>

\* ---------------------------------------------------------- specifications

BtIdleOn(configs) ==
  /\ config \in configs
  /\ lengths = Lengths(0, 0, 0)
  /\ n_periods = 0
  /\ i = 0
  /\ pc = "idle"
  /\ current_positions = <<>>
  /\ turnover_history = <<>>
  /\ total_transaction_costs = Zero
  /\ n_trades = 0
  /\ portfolio_returns = <<>>
  /\ cumulative_returns = <<>>
  /\ cum_ret = Zero
  /\ run_ic_history = <<>>
  /\ returns_i = <<>>
  /\ rebalanced_at = {}
  /\ result = NoResult

BtIdle == BtIdleOn({[rebalance_frequency |-> 1, n_long |-> <<>>,
                     n_short |-> <<>>, long_short |-> TRUE]})

CbIdle ==
  /\ combiner = [kind |-> "none"]
  /\ ic_history = <<>>
  /\ call = NoCall
  /\ supplied = [n \in Names |-> <<>>]
  /\ update_cap = 0

StIdle ==
  /\ st_in = <<>>
  /\ st_op = "idle"
  /\ st_out = NoStat

\* Backtest::run on every configuration and input of the bounds.
BacktestInit == BtInit /\ CbIdle /\ StIdle

SpecBacktest == BacktestInit /\ [][BtNext]_vars

\* An IC-weighting combiner under update_ic and combine.
HistoryNext == UpdateIc \/ CombineFew

HistoryInit == CbInitOn(HistoryConfigs, MaxUpdates) /\ BtIdle /\ StIdle

SpecIcHistory == HistoryInit /\ [][HistoryNext]_vars

\* Each of the three combiners on every signal list of the bounds.
CombineNext == UpdateIc \/ CombineAny

CombineInit == CbInitOn(CombineConfigs, 1) /\ BtIdle /\ StIdle

SpecCombine == CombineInit /\ [][CombineNext]_vars

\* The pure functions of the statistics kernel on every input of the bounds.
StatsNext == Standardize \/ IcReversed

StatsInit == StInit /\ BtIdle /\ CbIdle

SpecStats == StatsInit /\ [][StatsNext]_vars

\* construct_portfolio on every configuration and score vector of the bounds.
PortfolioConfigs == ConfigsOf({1}, OptSizes)

PortfolioInit == StInit /\ BtIdleOn(PortfolioConfigs) /\ CbIdle

SpecPortfolio == PortfolioInit /\ [][ConstructPortfolio]_vars

\* The three score calls on every panel of the bounds.
SignalsInit == SgInit /\ BtIdle /\ CbIdle

SpecSignals == SignalsInit /\ [][Score]_vars

\* SignalTurnover::calculate on every rank series of the bounds.
MetricsInit == TurnoverInit /\ BtIdle /\ CbIdle

SpecTurnover == MetricsInit /\ [][Turnover]_vars

\* DecayCurve::half_life on every curve of the bounds.
HalfLifeInit == DecayInit /\ BtIdle /\ CbIdle

SpecDecay == HalfLifeInit /\ [][HalfLife]_vars

\* compute_weighted_ic on every history update_ic builds within the bounds.
WeightedIcNext == UpdateIc \/ WeightedIc

WeightedIcInit == CbInitOn(WeightedIcConfigs, MaxUpdates) /\ BtIdle /\ StReady

SpecWeightedIc == WeightedIcInit /\ [][WeightedIcNext]_vars

\* Backtest::run on inputs of every three lengths of the bounds.
ClippedNext == ClippedStep \/ RunPanic \/ RunReturn

ClippedRunInit == ClippedInit /\ CbIdle /\ StIdle

SpecClipped == ClippedRunInit /\ [][ClippedNext]_vars

\* winsorize on every vector of the bounds, once and twice.
WinsorInit == WinsorizeInit /\ BtIdle /\ CbIdle

SpecWinsorize == WinsorInit /\ [][Winsorize]_vars

\* compute_rank_series on every score series of the bounds.
RanksInit == RankSeriesInit /\ BtIdle /\ CbIdle

SpecRanks == RanksInit /\ [][RankSeries]_vars

\* Backtest::run twice, on inputs that differ in one score vector.
HeldInit == ScorePairInit /\ BtIdle /\ CbIdle

SpecHeld == HeldInit /\ [][RunBoth]_vars

\* Backtest::run twice, on configurations that differ in the cost setting.
CostsInit == CostPairInit /\ BtIdle /\ CbIdle

SpecCosts == CostsInit /\ [][RunBoth]_vars

\* -------------------------------------------------------------- properties

\* C1 (as stated): every turnover recorded at a rebalance lies in [0, 1], for
\* long-only and for long/short configurations.
C1_TurnoverWithinOne ==
  \A k \in 1..Len(turnover_history) :
    XLe(Zero, turnover_history[k]) /\ XLe(turnover_history[k], One)

\* C1 (amended): every turnover recorded at a rebalance lies in [0, 1] in a
\* long-only configuration and in [0, 2] in a long/short configuration.
C1_TurnoverRange ==
  \A k \in 1..Len(turnover_history) :
    /\ XLe(Zero, turnover_history[k])
    /\ XLe(turnover_history[k], IF config.long_short THEN F(2, 1) ELSE One)

\* A long/short run that swapped its two sleeves, and recorded more than 1.
C1_Witness ==
  /\ config.long_short
  /\ \E k \in 1..Len(turnover_history) : XLt(One, turnover_history[k])

\* C3: with rebalance_frequency N >= 1 the positions are constructed exactly at
\* the periods i with i mod N = 0; a period appends a turnover record and counts
\* a trade if and only if it rebalances with non-empty prior positions; and
\* n_trades, in the loop and in the result, is the number of turnover records.
C3_RebalanceSchedule ==
  /\ [](/\ n_trades = Len(turnover_history)
        /\ result.returned => result.n_trades = Len(turnover_history)
        /\ config.rebalance_frequency >= 1 =>
             rebalanced_at = {j \in 0..(i - 1) : j % config.rebalance_frequency = 0})
  /\ [][i' = i + 1 =>
          LET counted == /\ i % config.rebalance_frequency = 0
                         /\ current_positions # <<>>
          IN  /\ (Len(turnover_history') = Len(turnover_history) + 1) <=> counted
              /\ (Len(turnover_history') = Len(turnover_history)) <=> ~counted
              /\ (n_trades' = n_trades + 1) <=> counted
              /\ (n_trades' = n_trades) <=> ~counted]_vars

\* A run with N = 2 past period 2: rebalanced at 0 and at 2, one trade counted.
C3_Witness ==
  /\ config.rebalance_frequency = 2
  /\ i = 3
  /\ rebalanced_at = {0, 2}
  /\ n_trades = 1
  /\ Len(turnover_history) = 1

\* The n_long of a long-only configuration on a score vector.
C4_NLong == UnwrapOr(config.n_long, Len(st_in))

C4_Case ==
  /\ st_op = "construct_portfolio"
  /\ ~config.long_short
  /\ FiniteIdx(st_in) # {}
  /\ C4_NLong >= 1

\* C4 (as stated): a long-only portfolio built from a score vector with a finite
\* score has weights that sum to 1, for any n_long >= 1.
C4_SumsToOne == C4_Case => XSum(st_out) = One

\* C4 (amended): a long-only portfolio built from a score vector with f >= 1
\* finite scores has weights that sum to min(n_long, f) / n_long, for any
\* n_long >= 1: to 1 exactly when n_long <= f.
C4_SumOfWeights ==
  C4_Case =>
    XSum(st_out) = F(MinInt(C4_NLong, Cardinality(FiniteIdx(st_in))), C4_NLong)

\* n_long = 2 on a vector with one finite score: the weights sum to 1/2.
C4_Witness ==
  /\ C4_Case
  /\ config.n_long = <<2>>
  /\ Cardinality(FiniteIdx(st_in)) = 1
  /\ XSum(st_out) = F(1, 2)

\* Whether the combiner keeps IC histories.
IcWeighting ==
  \/ combiner.kind = "ic_weight"
  \/ combiner.kind = "vol_scale" /\ combiner.ic_weight

\* The last n entries of s, or all of s if it has fewer.
LastOf(s, n) == SubSeq(s, Len(s) - MinInt(n, Len(s)) + 1, Len(s))

\* C2: after any sequence of update_ic calls on an IC-weighting combiner, each
\* signal's history has at most ic_lookback entries, and they are the most
\* recently supplied values of the signal in arrival order (the oldest are the
\* ones evicted).
C2_HistoryWindow ==
  IcWeighting =>
    \A n \in Names :
      /\ Len(HistoryOf(ic_history, n)) <= combiner.ic_lookback
      /\ HistoryOf(ic_history, n) = LastOf(supplied[n], combiner.ic_lookback)

\* Three values supplied to one signal under a lookback of 2: the first one,
\* different from the two kept, is gone.
C2_Witness ==
  /\ IcWeighting
  /\ combiner.ic_lookback = 2
  /\ Len(supplied["a"]) = 3
  /\ supplied["a"][1] # supplied["a"][2]
  /\ supplied["a"][1] # supplied["a"][3]
  /\ ic_history["a"] = <<supplied["a"][2], supplied["a"][3]>>

\* Whether the signal list of the latest call is one combine must reject.
RejectedInput ==
  \/ call.signals = <<>>
  \/ \E j \in 1..Len(call.signals) :
       Len(call.signals[j].scores) # Len(call.signals[1].scores)

\* C5: every combiner fails with the InvalidData error kind when combine is
\* given an empty signal list or signal vectors whose lengths differ.
C5_RejectsWithInvalidData ==
  (call.made /\ RejectedInput) =>
    (call.result.status = "err" /\ call.result.kind = "InvalidData")

\* C6: the IC-weighted combiner has an operation that clears the per-signal IC
\* history: in every state with a history recorded, one step of the combiner
\* leads to the state of a freshly constructed combiner of the same
\* configuration.
C6_ResetOffered ==
  (/\ combiner.kind = "ic_weight"
   /\ \E n \in DOMAIN ic_history : ic_history[n] # <<>>) =>
    ENABLED (/\ HistoryNext
             /\ combiner' = combiner
             /\ \A n \in DOMAIN ic_history' : ic_history'[n] = <<>>)

\* The finite entries of the input of the statistics kernel.
FiniteEntries == SelectIdx(st_in, {k \in 1..Len(st_in) : IsFinite(st_in[k])}, 1)

\* sigma <= 1e-10 over the finite entries, or fewer than 2 of them.
Degenerate ==
  \/ Len(FiniteEntries) < 2
  \/ ~SqrtAboveEps(Variance(FiniteEntries))

AllEntries(values, x) ==
  /\ Len(values) = Len(st_in)
  /\ \A k \in 1..Len(values) : values[k] = x

\* C7 (as stated): standardize returns an all-zero vector of the input's length,
\* applied false, whenever the sample standard deviation over the finite entries
\* is <= 1e-10 or the input has 0 or 1 finite entries.
C7_DegenerateGivesZeros ==
  (st_op = "standardize" /\ Degenerate) =>
    (AllEntries(st_out.values, Zero) /\ ~st_out.applied)

\* C7 (amended): standardize returns an all-zero vector of the input's length,
\* applied false, whenever the input has at least one finite entry and either
\* has just one or has a sample standard deviation <= 1e-10 over them; an input
\* with no finite entry gives a vector of NaN of the input's length (empty for
\* the empty input), applied false.
C7_DegenerateOutput ==
  st_op = "standardize" =>
    /\ (Degenerate /\ FiniteEntries # <<>>) =>
         (AllEntries(st_out.values, Zero) /\ ~st_out.applied)
    /\ FiniteEntries = <<>> =>
         (AllEntries(st_out.values, NaN) /\ ~st_out.applied)

\* A constant pair of finite entries next to a NaN: three zeros come out.
C7_Witness ==
  /\ st_op = "standardize"
  /\ Len(st_in) = 3
  /\ Len(FiniteEntries) = 2
  /\ Degenerate
  /\ AllEntries(st_out.values, Zero)

AllFinite == \A k \in 1..Len(st_in) : IsFinite(st_in[k])

StrictlyMonotonic ==
  \/ \A k \in 1..(Len(st_in) - 1) : XLt(st_in[k], st_in[k + 1])
  \/ \A k \in 1..(Len(st_in) - 1) : XLt(st_in[k + 1], st_in[k])

WeightedIcOf(j) ==
  compute_weighted_ic(call.history, combiner, call.signals[j].name)

\* C9: for any IC history reachable through update_ic, the weights the
\* IC-weighted combiner applies are non-negative, proportional to the absolute
\* weighted ICs and sum to 1; when every weighted IC is below 1e-10 in magnitude
\* each of the k signals gets 1/k.
C9_Weights ==
  (call.made /\ combiner.kind = "ic_weight" /\ call.weights # <<>>) =>
    LET k == Len(call.weights)
    IN  /\ \A j \in 1..k : XLe(Zero, call.weights[j])
        /\ XSum(call.weights) = One
        /\ \A j \in 1..k : \A l \in 1..k :
             XMul(call.weights[j], XAbs(WeightedIcOf(l)))
               = XMul(call.weights[l], XAbs(WeightedIcOf(j)))
        /\ (\A j \in 1..k : AbsBelowEps(WeightedIcOf(j))) =>
             \A j \in 1..k : call.weights[j] = F(1, k)

\* C10: no combiner returns a successful result with a non-finite value: a
\* combined vector with a NaN or an infinity makes combine fail with
\* InvalidData (the only failure of a call whose input is not rejected).
C10_NonFiniteRejected ==
  call.made =>
    /\ call.result.status = "ok" =>
         \A k \in 1..Len(call.result.values) :
           EntryFinite(call.result.values, call.result.scale2, k)
    /\ (call.result.status = "err" /\ ~RejectedInput) =>
         call.result.kind = "InvalidData"

\* The raw number of a symbol in a score call, <<>> when the symbol has no
\* data for one.
RawNumber(cfg, row) ==
  CASE cfg.name = "short_term_momentum" -> ShortTermRaw(cfg, row)
    [] cfg.name = "long_term_momentum" -> LongTermRaw(cfg, row)
    [] cfg.name = "book_to_price" ->
         IF row.book_value # <<>> /\ row.market_cap # <<>>
         THEN <<XDiv(row.book_value[1], row.market_cap[1])>> ELSE <<>>

NonFiniteSymbols(c) ==
  {k \in 1..Len(c.data) : /\ RawNumber(c.signal, c.data[k]) # <<>>
                          /\ ~IsFinite(RawNumber(c.signal, c.data[k])[1])}

FiniteSymbols(c) ==
  {k \in 1..Len(c.data) : /\ RawNumber(c.signal, c.data[k]) # <<>>
                          /\ IsFinite(RawNumber(c.signal, c.data[k])[1])}

NoRow(cfg) ==
  IF cfg.name = "book_to_price"
  THEN [book_value |-> <<>>, market_cap |-> <<>>] ELSE [close |-> <<>>]

\* The panel without the rows of the symbols in drop.
Without(c, drop) ==
  Vec([k \in 1..Len(c.data) |->
         IF k \in drop THEN NoRow(c.signal) ELSE c.data[k]])

\* C11: in a score call, a symbol whose raw number is not finite is absent
\* from the output, the call succeeds when another symbol has a finite raw
\* number, and the output is the one of the call without that symbol.
C11_NonFiniteDropped ==
  (st_op = "score" /\ NonFiniteSymbols(st_in) # {}) =>
    /\ \A k \in 1..Len(st_out.symbols) :
         st_out.symbols[k] \notin NonFiniteSymbols(st_in)
    /\ FiniteSymbols(st_in) # {} => st_out.status = "ok"
    /\ st_out = score(st_in.signal, Without(st_in, NonFiniteSymbols(st_in)))

\* The same of the book-to-price signal alone, which filters its rows.
C11_BookToPriceDrops ==
  (st_op = "score" /\ st_in.signal.name = "book_to_price"
     /\ NonFiniteSymbols(st_in) # {}) =>
    /\ \A k \in 1..Len(st_out.symbols) :
         st_out.symbols[k] \notin NonFiniteSymbols(st_in)
    /\ FiniteSymbols(st_in) # {} => st_out.status = "ok"
    /\ st_out = score(st_in.signal, Without(st_in, NonFiniteSymbols(st_in)))

\* C12: the signal turnover, when it is a number, lies in [0, 1].
C12_TurnoverIsFraction ==
  (st_op = "turnover" /\ ~IsNan(st_out.turnover_rate)) =>
    XLe(Zero, st_out.turnover_rate) /\ XLe(st_out.turnover_rate, One)

\* What the computation does keep: a turnover that is a number lies in [0, 2].
C12_TurnoverWithinTwo ==
  (st_op = "turnover" /\ ~IsNan(st_out.turnover_rate)) =>
    XLe(Zero, st_out.turnover_rate) /\ XLe(st_out.turnover_rate, F(2, 1))

HorizonsOf(curve) == {curve.horizons[k] : k \in 1..Len(curve.horizons)}

WithinHorizons(curve, h) ==
  /\ IsFinite(h)
  /\ \E lo \in HorizonsOf(curve) : XLe(F(lo, 1), h)
  /\ \E hi \in HorizonsOf(curve) : XLe(h, F(hi, 1))

\* C13: a half-life that is returned is a finite number between the least and
\* the greatest horizon of the curve.
C13_HalfLifeWithinHorizons ==
  (st_op = "half_life" /\ st_out # <<>>) => WithinHorizons(st_in, st_out[1])

\* The same of the curves whose first IC is not zero.
C13_NonZeroInitial ==
  (st_op = "half_life" /\ st_out # <<>> /\ st_in.ic_values[1] # Zero) =>
    WithinHorizons(st_in, st_out[1])

\* C14: the weighted IC of a signal with a stored history is the most recent
\* IC when decay_factor is 1.0, and the mean of the history when it is 0.0.
C14_DecayEndpoints ==
  (st_op = "compute_weighted_ic" /\ st_in.history # <<>>) =>
    /\ combiner.decay_factor = "1" =>
         st_out = st_in.history[Len(st_in.history)]
    /\ combiner.decay_factor = "0" =>
         st_out = XDiv(XSum(st_in.history), F(Len(st_in.history), 1))

\* The half of it that holds: with decay_factor 0.0, the mean of the history.
C14_ZeroDecayIsMean ==
  (st_op = "compute_weighted_ic" /\ st_in.history # <<>>
     /\ combiner.decay_factor = "0") =>
    st_out = XDiv(XSum(st_in.history), F(Len(st_in.history), 1))

\* The sleeves of a long/short construct_portfolio call: the sizes in force and
\* the assets in the top n_long and in the bottom n_short of the ranking.
SleeveNLong == UnwrapOr(config.n_long, Len(st_in) \div 2)

SleeveNShort == UnwrapOr(config.n_short, Len(st_in) \div 2)

TopWindow ==
  {SortedDesc(st_in)[p] : p \in 1..MinInt(SleeveNLong, Len(SortedDesc(st_in)))}

BottomWindow ==
  {SortedDesc(st_in)[p] :
     p \in (MaxInt(Len(SortedDesc(st_in)) - SleeveNShort, 0) + 1)
             ..Len(SortedDesc(st_in))}

LongShortCall == st_op = "construct_portfolio" /\ config.long_short

\* C15: a long/short portfolio with n_long = n_short in which no asset is in
\* both the top and the bottom window has weights that sum to 0.
C15_DollarNeutral ==
  (LongShortCall /\ SleeveNLong = SleeveNShort
     /\ TopWindow \cap BottomWindow = {}) =>
    XSum(st_out) = Zero

\* One long at +1 and one short at -1.
C15_Witness ==
  /\ LongShortCall
  /\ SleeveNLong = 1
  /\ SleeveNShort = 1
  /\ TopWindow \cap BottomWindow = {}
  /\ \E k \in 1..Len(st_out) : st_out[k] = One
  /\ \E k \in 1..Len(st_out) : st_out[k] = F(-1, 1)
  /\ XSum(st_out) = Zero

\* C20: in a long/short portfolio, an asset in both the top n_long and the
\* bottom n_short of the ranking ends with the short weight -1 / n_short.
C20_OverlapIsShort ==
  LongShortCall =>
    \A k \in TopWindow \cap BottomWindow :
      SleeveNShort > 0 /\ st_out[k] = F(-1, SleeveNShort)

\* Three finite scores with n_long = n_short = 2: the middle asset is in both
\* windows and is short at -1/2, the top one long at +1/2.
C20_Witness ==
  /\ LongShortCall
  /\ SleeveNLong = 2
  /\ SleeveNShort = 2
  /\ Cardinality(TopWindow \cap BottomWindow) = 1
  /\ \E k \in TopWindow \cap BottomWindow : st_out[k] = F(-1, 2)
  /\ \E k \in TopWindow \ BottomWindow : st_out[k] = F(1, 2)

AllPositive(rets) == \A k \in 1..Len(rets) : XLt(Zero, rets[k])

StrictlyIncreasing(s) == \A k \in 1..(Len(s) - 1) : XLt(s[k], s[k + 1])

\* C16: a run all of whose portfolio returns are strictly positive has strictly
\* increasing cumulative returns and a maximum drawdown of 0.
C16_PositiveReturnsCompound ==
  (result.returned /\ AllPositive(result.returns)) =>
    /\ StrictlyIncreasing(result.cumulative_returns)
    /\ result.max_drawdown = Zero

\* A run of two or more periods, each with a positive return.
C16_Witness ==
  /\ result.returned
  /\ Len(result.returns) >= 2
  /\ AllPositive(result.returns)
  /\ XLt(result.cumulative_returns[1], result.cumulative_returns[2])
  /\ result.max_drawdown = Zero

\* The least of the three input lengths.
Shortest ==
  CHOOSE m \in {lengths.signal_scores, lengths.returns, lengths.dates} :
    \A n \in {lengths.signal_scores, lengths.returns, lengths.dates} : m <= n

ClippedResult ==
  /\ i = Shortest
  /\ Len(result.returns) = Shortest
  /\ Len(result.cumulative_returns) = Shortest
  /\ result.total_return =
       IF Shortest = 0 THEN Zero ELSE result.cumulative_returns[Shortest]

\* C17: a run on inputs of lengths a, b and c does not fail, and returns after
\* min(a, b, c) periods with returns and cumulative_returns of that length and
\* total_return the last cumulative return (0 without a period).
C17_ClipsToShortest ==
  /\ pc # "panic"
  /\ pc = "done" => ClippedResult

\* The same of the runs that return.
C17_ReturnedIsClipped == pc = "done" => ClippedResult

\* C18: winsorizing a winsorized vector changes nothing, for any vector and
\* any fraction in [0, 0.5).
C18_WinsorizeIdempotent ==
  st_op = "winsorized again" => st_out.values = st_out.before

\* A vector that the first call clipped below and above, winsorized again.
C18_Witness ==
  /\ st_op = "winsorized again"
  /\ st_in.config.winsorize
  /\ \E k \in 1..Len(st_in.values) :
       IsFinite(st_in.values[k]) /\ XLt(st_in.values[k], st_out.values[k])
  /\ \E k \in 1..Len(st_in.values) :
       IsFinite(st_in.values[k]) /\ XLt(st_out.values[k], st_in.values[k])
  /\ st_out.values = st_out.before

EqualWeightNormalized ==
  [kind |-> "equal_weight", normalize |-> TRUE, ic_weight |-> FALSE,
   ic_lookback |-> 1, decay_factor |-> "0", target_vol |-> One]

\* A call of the IC-weighted combiner, with no IC recorded, on a list of one
\* or more signals of equal lengths.
NoHistoryCall ==
  /\ call.made
  /\ combiner.kind = "ic_weight"
  /\ \A n \in DOMAIN call.history : call.history[n] = <<>>
  /\ call.signals # <<>>
  /\ \A j \in 1..Len(call.signals) :
       Len(call.signals[j].scores) = Len(call.signals[1].scores)

\* C19: with no IC history the IC-weighted combiner returns what the
\* equal-weight combiner with normalization returns on the same signals.
C19_NoHistoryIsEqualWeight ==
  NoHistoryCall =>
    call.result = combine(<<>>, EqualWeightNormalized, call.signals)

\* Two signals whose mean is not constant: the standardized mean is returned.
C19_Witness ==
  /\ NoHistoryCall
  /\ Len(call.signals) = 2
  /\ call.signals[1].scores # call.signals[2].scores
  /\ call.result.status = "ok"
  /\ \E k \in 1..Len(call.result.values) : call.result.values[k] # Zero

\* The pairs of assets of a construct_portfolio call with equal finite scores,
\* the lower input index first.
TiedPairs ==
  {jk \in FiniteIdx(st_in) \X FiniteIdx(st_in) :
     jk[1] < jk[2] /\ st_in[jk[1]] = st_in[jk[2]]}

\* The position of asset k in the descending ranking of the call.
RankOf(k) ==
  CHOOSE p \in 1..Len(SortedDesc(st_in)) : SortedDesc(st_in)[p] = k

\* C21: of two assets with equal finite scores the one with the lower input
\* index is ranked higher: whenever the higher-index one is long the lower-index
\* one is long too, and whenever the lower-index one is short the higher-index
\* one is short too.
C21_TiesKeepIndexOrder ==
  st_op = "construct_portfolio" =>
    \A jk \in TiedPairs :
      /\ RankOf(jk[1]) < RankOf(jk[2])
      /\ XLt(Zero, st_out[jk[2]]) => st_out[jk[1]] = st_out[jk[2]]
      /\ XLt(st_out[jk[1]], Zero) => st_out[jk[2]] = st_out[jk[1]]

\* Three equal scores with n_long = n_short = 1: the first asset is the long
\* one, the last the short one, the middle one is left out.
C21_Witness ==
  /\ LongShortCall
  /\ Len(st_in) = 3
  /\ Cardinality(TiedPairs) = 3
  /\ st_out = <<One, Zero, F(-1, 1)>>

\* bps / 10000 times the sum of the turnovers recorded.
CostOfTurnovers(turnovers, bps) ==
  XMul(XDiv(bps, F(10000, 1)), XSum(turnovers))

\* C22: the transaction costs of a run, in the loop and in the result, are
\* transaction_cost_bps / 10000 times the sum of the recorded turnovers, which
\* is avg_turnover times n_trades times bps / 10000; without a rebalance on
\* prior positions the costs and avg_turnover are both 0.
C22_CostsFollowTurnover ==
  /\ total_transaction_costs = CostOfTurnovers(turnover_history, transaction_cost_bps)
  /\ result.returned =>
       /\ result.total_transaction_costs
            = CostOfTurnovers(turnover_history, transaction_cost_bps)
       /\ result.total_transaction_costs
            = XMul(XMul(result.avg_turnover, F(result.n_trades, 1)),
                   XDiv(transaction_cost_bps, F(10000, 1)))
       /\ turnover_history = <<>> =>
            /\ result.total_transaction_costs = Zero
            /\ result.avg_turnover = Zero

\* A returned run with two trades of different turnovers and a cost.
C22_Witness ==
  /\ result.returned
  /\ result.n_trades = 2
  /\ turnover_history[1] # turnover_history[2]
  /\ XLt(Zero, turnover_history[1])
  /\ XLt(Zero, turnover_history[2])
  /\ XLt(Zero, result.total_transaction_costs)

\* The finite values of a winsorize call in ascending order, and the clipping
\* of the call's values to the elements at two zero-based indices of them.
SortedFinite(values) ==
  LET fv == SelectIdx(values, FiniteIdx(values), 1)
      order == SortedAsc(fv)
  IN  Vec([p \in 1..Len(fv) |-> fv[order[p]]])

ClippedAt(values, lower_idx, upper_idx) ==
  LET sorted == SortedFinite(values)
  IN  Vec([k \in 1..Len(values) |->
        IF ~IsFinite(values[k]) THEN values[k]
        ELSE IF XLt(values[k], sorted[lower_idx + 1]) THEN sorted[lower_idx + 1]
        ELSE IF XLt(sorted[upper_idx + 1], values[k]) THEN sorted[upper_idx + 1]
        ELSE values[k]])

WinsorizingCall ==
  /\ st_op = "winsorized"
  /\ st_in.config.winsorize
  /\ FiniteIdx(st_in.values) # {}

NFinite == Cardinality(FiniteIdx(st_in.values))

\* C23: winsorizing n finite values at fraction p clips them to the elements
\* of the ascending sort at index floor(n * p) and at index
\* ceil(n * (1 - p)) - 1, the latter clamped to n - 1.
C23_IndexPicks ==
  WinsorizingCall =>
    st_out.values =
      ClippedAt(st_in.values,
                FloorUsize(XMul(F(NFinite, 1), st_in.config.winsorize_pct)),
                MinInt(CeilUsize(XMul(F(NFinite, 1),
                                      XSub(One, st_in.config.winsorize_pct))) - 1,
                       NFinite - 1))

\* The picks the call makes: floor(n * p) and ceil(n * (1 - p)), the latter
\* clamped to n - 1.
C23_UpperPickIsCeil ==
  WinsorizingCall =>
    st_out.values =
      ClippedAt(st_in.values,
                FloorUsize(XMul(F(NFinite, 1), st_in.config.winsorize_pct)),
                MinInt(CeilUsize(XMul(F(NFinite, 1),
                                      XSub(One, st_in.config.winsorize_pct))),
                       NFinite - 1))

\* C24: in the rank series of the evaluator, assets with equal finite scores in
\* a period have the same rank, an asset with a non-finite score has a missing
\* rank, and the ranks of the f finite scores fill the positions 0 .. f - 1
\* (they sum to f * (f - 1) / 2 and none is above f - 1).
C24_FractionalRanks ==
  st_op = "rank_series" =>
    \A t \in 1..Len(st_in) :
      /\ Len(st_out[t]) = Len(st_in[t])
      /\ \A j \in FiniteIdx(st_in[t]) : \A k \in FiniteIdx(st_in[t]) :
           st_in[t][j] = st_in[t][k] => st_out[t][j] = st_out[t][k]
      /\ \A k \in 1..Len(st_in[t]) : ~IsFinite(st_in[t][k]) => IsNan(st_out[t][k])
      /\ LET f == Cardinality(FiniteIdx(st_in[t]))
         IN  /\ XSum(SelectIdx(st_out[t], FiniteIdx(st_in[t]), 1))
                  = F(f * (f - 1), 2)
             /\ \A k \in FiniteIdx(st_in[t]) :
                  XLe(Zero, st_out[t][k]) /\ XLe(st_out[t][k], F(f - 1, 1))

\* The part of it that the ranks keep: a missing rank for a non-finite score,
\* and the positions 0 .. f - 1 for the f finite ones.
C24_NonFiniteUnranked ==
  st_op = "rank_series" =>
    \A t \in 1..Len(st_in) :
      /\ Len(st_out[t]) = Len(st_in[t])
      /\ \A k \in 1..Len(st_in[t]) : ~IsFinite(st_in[t][k]) => IsNan(st_out[t][k])
      /\ {st_out[t][k] : k \in FiniteIdx(st_in[t])}
           = {F(r, 1) : r \in 0..(Cardinality(FiniteIdx(st_in[t])) - 1)}

\* The zero-based periods of an input at which a run with frequency N >= 1
\* rebalances, and whether the two inputs of a pair have the same score vector
\* at each of them.
RebalancePeriods(in) ==
  {p \in 0..(Len(in.signal_scores) - 1) : p % in.config.rebalance_frequency = 0}

SameAtRebalances ==
  \A p \in RebalancePeriods(st_in.a) :
    st_in.a.signal_scores[p + 1] = st_in.b.signal_scores[p + 1]

\* The positions of period p in the run of the input: those constructed from
\* the scores of the latest rebalance period, and the return they give.
HeldFromLastRebalance(in, out) ==
  \A p \in 0..(Len(out.held) - 1) :
    /\ out.held[p + 1] =
         construct_portfolio(
           in.config,
           in.signal_scores[p - (p % in.config.rebalance_frequency) + 1])
    /\ out.returns[p + 1] =
         IF out.held[p + 1] = <<>> THEN Zero
         ELSE calculate_portfolio_return(out.held[p + 1], in.returns[p + 1])

\* C25: in a run with rebalance_frequency N >= 1 the weights behind the return
\* of every period i are the ones constructed from signal_scores[i - (i mod N)],
\* and two runs whose inputs differ only in score vectors of periods that are
\* no rebalance periods have the same positions, turnovers, trades and costs.
C25_HeldBetweenRebalances ==
  (st_op = "run" /\ st_in.a.config.rebalance_frequency >= 1) =>
    /\ st_out.a.returned /\ st_out.b.returned
    /\ Len(st_out.a.held) = Len(st_in.a.signal_scores)
    /\ HeldFromLastRebalance(st_in.a, st_out.a)
    /\ HeldFromLastRebalance(st_in.b, st_out.b)
    /\ SameAtRebalances =>
         /\ st_out.a.held = st_out.b.held
         /\ st_out.a.turnover_history = st_out.b.turnover_history
         /\ st_out.a.avg_turnover = st_out.b.avg_turnover
         /\ st_out.a.n_trades = st_out.b.n_trades
         /\ st_out.a.total_transaction_costs = st_out.b.total_transaction_costs

\* Three periods with N = 2 and a trade at period 2; the two inputs differ in
\* the scores of period 1, from which another portfolio would be constructed
\* than the one held.
C25_Witness ==
  /\ st_op = "run"
  /\ st_in.a.config.rebalance_frequency = 2
  /\ Len(st_in.a.signal_scores) = 3
  /\ st_in.a.signal_scores[2] # st_in.b.signal_scores[2]
  /\ SameAtRebalances
  /\ st_out.a.held[1] # <<>>
  /\ st_out.a.held[2] = st_out.a.held[1]
  /\ construct_portfolio(st_in.a.config, st_in.a.signal_scores[2]) # st_out.a.held[2]
  /\ construct_portfolio(st_in.b.config, st_in.b.signal_scores[2]) # st_out.b.held[2]
  /\ st_out.a.held[3] # st_out.a.held[2]
  /\ st_out.a.n_trades = 1
  /\ st_out.a.held = st_out.b.held

\* A result of run without its total_transaction_costs.
WithoutCosts(out) ==
  IF out.returned THEN [out EXCEPT !.total_transaction_costs = Zero] ELSE out

\* C26: two runs on the same inputs under configurations that differ in
\* transaction_cost_bps only return results that are equal in every field but
\* total_transaction_costs: returns, cumulative_returns, total_return, the
\* annualized figures, Sharpe ratio, max_drawdown, turnover, ICs and n_trades.
C26_ReturnsIgnoreCosts ==
  (/\ st_op = "run"
   /\ st_in.b = [st_in.a EXCEPT !.config.transaction_cost_bps
                                   = st_in.b.config.transaction_cost_bps]) =>
    WithoutCosts(st_out.a) = WithoutCosts(st_out.b)

\* Two runs with a trade of positive turnover and a return that is not zero,
\* one at 10 bps and one at 25 bps: the costs differ, nothing else does.
C26_Witness ==
  /\ st_op = "run"
  /\ st_in.a.config.transaction_cost_bps = transaction_cost_bps
  /\ st_in.b.config.transaction_cost_bps = F(25, 1)
  /\ st_out.a.returned
  /\ st_out.a.n_trades >= 1
  /\ XLt(Zero, st_out.a.avg_turnover)
  /\ st_out.a.total_return # Zero
  /\ XLt(st_out.a.total_transaction_costs, st_out.b.total_transaction_costs)
  /\ st_out.a.returns = st_out.b.returns

\* C27: run does not abort, whatever its inputs and its configuration,
\* rebalance_frequency = 0 included.
C27_RunNeverAborts == pc # "panic"

\* The same of the configurations with rebalance_frequency >= 1, and of the
\* runs without a period.
C27_PositiveFrequencyNeverAborts ==
  (config.rebalance_frequency >= 1 \/ n_periods = 0) => pc # "panic"

\* A call of an IC-weighting combiner on finite score vectors of one length,
\* two assets or more.
FiniteSignalsCall ==
  /\ call.made
  /\ IcWeighting
  /\ call.signals # <<>>
  /\ \A j \in 1..Len(call.signals) :
       /\ Len(call.signals[j].scores) = Len(call.signals[1].scores)
       /\ Len(call.signals[j].scores) >= 2
       /\ FiniteIdx(call.signals[j].scores) = 1..Len(call.signals[j].scores)

SucceedsFinite ==
  /\ call.result.status = "ok"
  /\ \A j \in 1..Len(call.weights) : IsFinite(call.weights[j])
  /\ \A k \in 1..Len(call.result.values) :
       EntryFinite(call.result.values, call.result.scale2, k)

\* C28: after update_ic calls with a non-finite IC among them, combine on
\* finite score vectors of one length (2 or more assets) succeeds, with finite
\* weights and a finite output.
C28_NonFiniteIcIsMissing ==
  (/\ FiniteSignalsCall
   /\ \E n \in Names : \E k \in 1..Len(supplied[n]) : ~IsFinite(supplied[n][k])) =>
    SucceedsFinite

\* The same when no non-finite IC is in the histories the call reads.
C28_FiniteHistorySucceeds ==
  (/\ FiniteSignalsCall
   /\ \A n \in DOMAIN call.history : \A k \in 1..Len(call.history[n]) :
        IsFinite(call.history[n][k])) =>
    SucceedsFinite

\* C29: a call update_ic(name, ic) leaves the history of every other signal
\* name as it was (and adds no key for it), and a call of combine leaves every
\* history as it was.
C29_OnlyNamedHistoryChanges ==
  [][/\ \A n \in Names :
          supplied'[n] = supplied[n] =>
            /\ (n \in DOMAIN ic_history') <=> (n \in DOMAIN ic_history)
            /\ HistoryOf(ic_history', n) = HistoryOf(ic_history, n)
     /\ call' # call => ic_history' = ic_history]_vars

\* Both signals have a history, the two differ, the latest update was one of
\* "b" (its history ends with the value supplied last), and combine has run on
\* these histories.
C29_Witness ==
  /\ IcWeighting
  /\ combiner.ic_lookback = 2
  /\ Len(supplied["a"]) = 1
  /\ Len(supplied["b"]) = 2
  /\ ic_history = [a |-> supplied["a"], b |-> supplied["b"]]
  /\ ic_history["a"][1] # ic_history["b"][2]
  /\ call.made
  /\ call.history = ic_history

\* A call of combine with re-standardization on, on one or more finite score
\* vectors of one length.
NormalizingCall ==
  /\ call.made
  /\ combiner.normalize
  /\ call.signals # <<>>
  /\ \A j \in 1..Len(call.signals) :
       /\ Len(call.signals[j].scores) = Len(call.signals[1].scores)
       /\ FiniteIdx(call.signals[j].scores) = 1..Len(call.signals[j].scores)

ZerosOfLength(n) ==
  /\ call.result.status = "ok"
  /\ call.result.values = Vec([k \in 1..n |-> Zero])

\* C30: combine with re-standardization on, given score vectors of 0 or 1
\* assets, does not abort and returns the all-zero vector of that length.
C30_ShortVectorsGiveZeros ==
  (NormalizingCall /\ Len(call.signals[1].scores) < 2) =>
    ZerosOfLength(Len(call.signals[1].scores))

\* The degenerate case that does give zeros: the equal-weight combiner on
\* vectors of 2 assets or more whose mean vector is constant.
C30_ConstantMeanGivesZeros ==
  (/\ NormalizingCall
   /\ combiner.kind = "equal_weight"
   /\ Len(call.signals[1].scores) >= 2
   /\ \A k \in 1..Len(call.signals[1].scores) :
        XSum([j \in 1..Len(call.signals) |-> call.signals[j].scores[k]])
          = XSum([j \in 1..Len(call.signals) |-> call.signals[j].scores[1]])) =>
    ZerosOfLength(Len(call.signals[1].scores))
====
